---- MODULE Spec2Model ----
(***************************************************************************)
(* Plant-health classification: the two real-model HTTP handlers           *)
(* (api/predict.py, create_ml_api.py) and the heuristic scorer of          *)
(* test_new_crops_model.py.                                                *)
(*                                                                         *)
(* Numbers.  Every float of the program (probabilities, features, biases)  *)
(* is a fixed-point integer counted in thousandths: 0.5 is 500, 0.001 is   *)
(* 1.  Divisions truncate.  A Python str is the sequence of its            *)
(* characters, so that lower() and the substring test `in` are computed.   *)
(* A Python None is NoneVal where a record is expected and NoneStr where   *)
(* a str is expected.                                                      *)
(***************************************************************************)
EXTENDS Integers, Sequences, FiniteSets, TLC

VARIABLES
    vercel_model,   \* api/predict.py: the module global `model`
    flask_model,    \* create_ml_api.py: the module global `model`
    flask_state,    \* create_ml_api.py: "init", "serving" or "exited"
    program,        \* which program this process runs
    h5_file,        \* new_plant_health_classifier.h5: "absent", "valid", "corrupt"
    op,             \* the operation that completed last
    inp,            \* its arguments
    out,            \* its result (and the locals the claims speak about)
    load_calls,     \* executions of tf.keras.models.load_model in this process
    model_sets,     \* assignments to the module global `model` in this process
    wire            \* api/predict.py: what the last POST wrote on the socket

vars == <<vercel_model, flask_model, flask_state, program, h5_file, op, inp, out,
          load_calls, model_sets, wire>>

---------------------------------------------------------------------------
(* Bounds of the model.                                                    *)

\* side of the square image tensor (224 in the program)
ImgSide == 2

\* largest magnitude of the Gaussian jitter draw, in thousandths
MaxJitter == 60

\* executions of tf.keras.models.load_model followed in one process
MaxLoads == 2

---------------------------------------------------------------------------
(* Basic values.                                                           *)

Unit == 10 * 100

NoneVal == [none |-> TRUE]

NoneStr == <<"None">>

Abs(x) == IF x < 0 THEN 0 - x ELSE x

Min(a, b) == IF a < b THEN a ELSE b

Max(a, b) == IF a > b THEN a ELSE b

RECURSIVE SumFn(_, _)
SumFn(f, S) ==
    IF S = {} THEN 0
    ELSE LET x == CHOOSE y \in S : TRUE
         IN  f[x] + SumFn(f, S \ {x})

\* floor of the square root, by bisection on [lo, hi]
RECURSIVE SqrtIn(_, _, _)
SqrtIn(v, lo, hi) ==
    IF lo >= hi THEN lo
    ELSE LET mid == (lo + hi + 1) \div 2
         IN  IF mid * mid <= v THEN SqrtIn(v, mid, hi)
             ELSE SqrtIn(v, lo, mid - 1)

Sqrt(v) == SqrtIn(v, 0, Unit)

---------------------------------------------------------------------------
(* Strings.                                                                *)

UpperChars == <<"A", "B", "C", "D", "E", "F", "G", "H", "I", "J", "K", "L", "M",
                "N", "O", "P", "Q", "R", "S", "T", "U", "V", "W", "X", "Y", "Z">>

LowerChars == <<"a", "b", "c", "d", "e", "f", "g", "h", "i", "j", "k", "l", "m",
                "n", "o", "p", "q", "r", "s", "t", "u", "v", "w", "x", "y", "z">>

\* the lower-case letter of every upper-case letter
LowerTable ==
    [c \in {UpperChars[i] : i \in 1..Len(UpperChars)} |->
        LowerChars[CHOOSE i \in 1..Len(UpperChars) : UpperChars[i] = c]]

LowerChar(c) == IF c \in DOMAIN LowerTable THEN LowerTable[c] ELSE c

\* str.lower()
lower(s) == [i \in 1..Len(s) |-> LowerChar(s[i])]

\* the Python test `sub in s`
Contains(sub, s) ==
    \E i \in 0..(Len(s) - Len(sub)) : SubSeq(s, i + 1, i + Len(sub)) = sub

\* Python truthiness of a str-or-None
Truthy(s) == s # NoneStr /\ s # <<>>

kw_palak == <<"p", "a", "l", "a", "k">>
kw_keerai == <<"k", "e", "e", "r", "a", "i">>
kw_spinach == <<"s", "p", "i", "n", "a", "c", "h">>
kw_arai == <<"a", "r", "a", "i">>
kw_siru == <<"s", "i", "r", "u">>
kw_tomato == <<"t", "o", "m", "a", "t", "o">>
kw_pepper == <<"p", "e", "p", "p", "e", "r">>
kw_strawberry == <<"s", "t", "r", "a", "w", "b", "e", "r", "r", "y">>
kw_corn == <<"c", "o", "r", "n">>
kw_maize == <<"m", "a", "i", "z", "e">>
kw_unhealthy == <<"u", "n", "h", "e", "a", "l", "t", "h", "y">>
kw_healthy == <<"h", "e", "a", "l", "t", "h", "y">>
kw_plant == <<"p", "l", "a", "n", "t">>

lbl_Palak == <<"P", "a", "l", "a", "k">>
lbl_palak == <<"p", "a", "l", "a", "k">>
lbl_arai_keerai == <<"a", "r", "a", "i", " ", "k", "e", "e", "r", "a", "i">>
lbl_siru_keerai == <<"s", "i", "r", "u", " ", "k", "e", "e", "r", "a", "i">>
lbl_Arai == <<"A", "r", "a", "i">>
lbl_Spinach == <<"S", "p", "i", "n", "a", "c", "h">>
lbl_TOMATO == <<"T", "O", "M", "A", "T", "O">>
lbl_tomato == <<"t", "o", "m", "a", "t", "o">>
lbl_tomato_palak == <<"t", "o", "m", "a", "t", "o", " ", "p", "a", "l", "a", "k">>
lbl_siru_tomato == <<"s", "i", "r", "u", " ", "t", "o", "m", "a", "t", "o">>
lbl_bell_pepper == <<"b", "e", "l", "l", "-", "p", "e", "p", "p", "e", "r">>
lbl_strawberry == <<"s", "t", "r", "a", "w", "b", "e", "r", "r", "y">>
lbl_pepper_strawberry == <<"p", "e", "p", "p", "e", "r", " ", "s", "t", "r", "a", "w", "b", "e", "r", "r", "y">>
lbl_sweet_corn == <<"s", "w", "e", "e", "t", " ", "c", "o", "r", "n">>
lbl_Maize == <<"M", "a", "i", "z", "e">>
lbl_Unknown_Crop == <<"U", "n", "k", "n", "o", "w", "n", " ", "C", "r", "o", "p">>
lbl_unknown == <<"u", "n", "k", "n", "o", "w", "n">>

\* the labels the scorer is called with: one or more of every bias group
ScorerLabels ==
    { lbl_Palak, lbl_arai_keerai, lbl_siru_tomato, lbl_TOMATO, lbl_tomato,
      lbl_bell_pepper, lbl_pepper_strawberry, lbl_strawberry, lbl_sweet_corn,
      lbl_unknown, NoneStr }

\* the crop labels a caller may pass (str or None)
CropLabels ==
    { lbl_Palak, lbl_palak, lbl_arai_keerai, lbl_siru_keerai, lbl_Arai,
      lbl_Spinach, lbl_TOMATO, lbl_tomato_palak, lbl_siru_tomato,
      lbl_bell_pepper, lbl_strawberry, lbl_pepper_strawberry, lbl_sweet_corn,
      lbl_Maize, lbl_Unknown_Crop, lbl_unknown, <<>>, NoneStr }

---------------------------------------------------------------------------
(* test_new_crops_model.py: the crop bias table.                           *)

\* get_crop_adjustment_branch without the case fold of line 125
get_crop_adjustment_branch_no_lower(crop_type) ==
    IF ~Truthy(crop_type) THEN 0
    ELSE LET crop == crop_type
         IN  IF Contains(kw_palak, crop) \/ Contains(kw_keerai, crop)
                   \/ Contains(kw_spinach, crop) THEN 1
             ELSE IF Contains(kw_arai, crop) \/ Contains(kw_siru, crop) THEN 2
             ELSE IF Contains(kw_tomato, crop) THEN 3
             ELSE IF Contains(kw_pepper, crop) THEN 4
             ELSE IF Contains(kw_strawberry, crop) THEN 5
             ELSE IF Contains(kw_corn, crop) \/ Contains(kw_maize, crop) THEN 6
             ELSE 7

\* get_crop_adjustment_branch with the first two tests of the chain swapped
get_crop_adjustment_branch_swapped(crop_type) ==
    IF ~Truthy(crop_type) THEN 0
    ELSE LET crop == lower(crop_type)
         IN  IF Contains(kw_arai, crop) \/ Contains(kw_siru, crop) THEN 2
             ELSE IF Contains(kw_palak, crop) \/ Contains(kw_keerai, crop)
                   \/ Contains(kw_spinach, crop) THEN 1
             ELSE IF Contains(kw_tomato, crop) THEN 3
             ELSE IF Contains(kw_pepper, crop) THEN 4
             ELSE IF Contains(kw_strawberry, crop) THEN 5
             ELSE IF Contains(kw_corn, crop) \/ Contains(kw_maize, crop) THEN 6
             ELSE 7

\* get_crop_adjustment_branch without 'siru' in the second test
get_crop_adjustment_branch_no_siru(crop_type) ==
    IF ~Truthy(crop_type) THEN 0
    ELSE LET crop == lower(crop_type)
         IN  IF Contains(kw_palak, crop) \/ Contains(kw_keerai, crop)
                   \/ Contains(kw_spinach, crop) THEN 1
             ELSE IF Contains(kw_arai, crop) THEN 2
             ELSE IF Contains(kw_tomato, crop) THEN 3
             ELSE IF Contains(kw_pepper, crop) THEN 4
             ELSE IF Contains(kw_strawberry, crop) THEN 5
             ELSE IF Contains(kw_corn, crop) \/ Contains(kw_maize, crop) THEN 6
             ELSE 7

\* The position of the return statement get_crop_adjustment leaves by:
\* 0 for the `not crop_type` guard, 1..6 for the branches of the if-chain
\* in source order, 7 for the final `return 0.0`.
get_crop_adjustment_branch(crop_type) ==
    IF ~Truthy(crop_type) THEN 0
    ELSE LET crop == lower(crop_type)
         IN  IF Contains(kw_palak, crop) \/ Contains(kw_keerai, crop)
                   \/ Contains(kw_spinach, crop) THEN 1
             ELSE IF Contains(kw_arai, crop) \/ Contains(kw_siru, crop) THEN 2
             ELSE IF Contains(kw_tomato, crop) THEN 3
             ELSE IF Contains(kw_pepper, crop) THEN 4
             ELSE IF Contains(kw_strawberry, crop) THEN 5
             ELSE IF Contains(kw_corn, crop) \/ Contains(kw_maize, crop) THEN 6
             ELSE 7

\* the value each return statement returns, in thousandths
crop_adjustment_value(branch) ==
    CASE branch = 1 -> 100
      [] branch = 2 -> 100
      [] branch = 3 -> 0 - 500
      [] branch = 4 -> 0 - 300
      [] branch = 5 -> 0 - 800
      [] branch = 6 -> 300
      [] OTHER -> 0

get_crop_adjustment(crop_type) ==
    crop_adjustment_value(get_crop_adjustment_branch(crop_type))

---------------------------------------------------------------------------
(* test_new_crops_model.py: image loading and feature extraction.          *)

\* the divisor of `np.array(img) / 255.0`
MaxPixel == 255

col_black == <<0, 0, 0>>
col_dark == <<10, 12, 8>>
col_white == <<255, 255, 255>>
col_green == <<50, 150, 50>>
col_lime == <<50, 255, 50>>
col_pale == <<200, 255, 200>>
col_red == <<255, 0, 0>>

Palette == {col_black, col_dark, col_white, col_green, col_lime, col_pale, col_red}

Side == 1..ImgSide

\* A decoded RGB picture of ImgSide x ImgSide uint8 pixels, px[y][x][c]:
\* two colours laid out in columns, rows or a checkerboard (a = b: uniform).
MkPicture(kind, a, b) ==
    [y \in Side |-> [x \in Side |->
        CASE kind = "columns" -> IF x % 2 = 1 THEN a ELSE b
          [] kind = "rows"    -> IF y % 2 = 1 THEN a ELSE b
          [] OTHER            -> IF (x + y) % 2 = 0 THEN a ELSE b]]

\* two greys whose columns against black give a contrast of exactly 0.2 and
\* of exactly 0.4 on a tensor of even side
col_grey102 == <<102, 102, 102>>
col_grey204 == <<204, 204, 204>>

Pictures ==
    {MkPicture(kind, a, b) : kind \in {"columns", "rows", "checker"},
                             a \in Palette, b \in Palette}
        \cup {MkPicture("columns", col_black, g) : g \in {col_grey102, col_grey204}}

\* a file that holds a picture of one colour
UniformFile(colour) == [mode |-> "RGB", px |-> MkPicture("columns", colour, colour)]

\* what Image.open finds in a file: a picture, or bytes it cannot decode
FileContents == {[mode |-> "RGB", px |-> p] : p \in Pictures} \cup {NoneVal}

\* the files of the test folder: uniform and two-column pictures
TestFileContents ==
    {[mode |-> "RGB", px |-> MkPicture("columns", a, a)] : a \in Palette}
        \cup {[mode |-> "RGB", px |-> MkPicture("columns", a, col_white)] : a \in Palette}
        \cup {[mode |-> "RGB", px |-> MkPicture("columns", col_green, col_lime)], NoneVal}

\* the colour table of the palette-mode pictures
pil_palette == <<col_black, col_green, col_white>>

\* decoded pictures of other modes and sizes, px[y][x] a tuple of the band
\* values: one grey level (L), one palette index (P), r, g, b, alpha (RGBA)
PictureSizes == {<<1, 1>>, <<2, 2>>, <<4, 3>>, <<3, 4>>}

MkRaw(mode, size, a, b) ==
    [mode |-> mode,
     px |-> [y \in 1..size[1] |-> [x \in 1..size[2] |->
                IF (x + y) % 2 = 0 THEN a ELSE b]]]

RawFiles ==
    {MkRaw("L", z, p[1], p[2]) :
        z \in PictureSizes, p \in {<< <<0>>, <<255>> >>, << <<128>>, <<128>> >>}}
    \cup {MkRaw("P", z, p[1], p[2]) :
        z \in PictureSizes, p \in {<< <<0>>, <<2>> >>, << <<1>>, <<1>> >>}}
    \cup {MkRaw("RGBA", z, p[1], p[2]) :
        z \in PictureSizes,
        p \in {<< <<255, 0, 0, 0>>, <<50, 150, 50, 255>> >>,
               << <<200, 255, 200, 128>>, <<200, 255, 200, 128>> >>}}
    \cup {MkRaw("RGB", z, p[1], p[2]) :
        z \in PictureSizes, p \in {<<col_black, col_white>>, <<col_green, col_green>>}}

\* Image.convert('RGB'): a grey level on the three bands, the colour of a
\* palette index, or r, g, b with the alpha band dropped
pil_convert_rgb(img) ==
    [mode |-> "RGB",
     px |-> [y \in DOMAIN img.px |-> [x \in DOMAIN img.px[y] |->
                LET v == img.px[y][x]
                IN  CASE img.mode = "L" -> <<v[1], v[1], v[1]>>
                      [] img.mode = "P" -> pil_palette[v[1] + 1]
                      [] img.mode = "RGBA" -> <<v[1], v[2], v[3]>>
                      [] OTHER -> v]]]

\* Image.resize((224, 224)): every target pixel takes the value of the
\* source pixel it falls on (the interpolation filter is left out: it
\* yields uint8 values as well)
pil_resize(img) ==
    LET h == Len(img.px)
        w == Len(img.px[1])
    IN  [mode |-> img.mode,
         px |-> [y \in Side |-> [x \in Side |->
                    img.px[((y - 1) * h) \div ImgSide + 1][((x - 1) * w) \div ImgSide + 1]]]]

\* np.array(img) / 255.0 followed by np.expand_dims(img_array, axis=0)
normalize(px) ==
    [batch |-> << [y \in DOMAIN px |-> [x \in DOMAIN px[y] |->
                    [c \in DOMAIN px[y][x] |-> (px[y][x][c] * Unit) \div MaxPixel]]] >>]

\* load_and_preprocess_image without the conversion to RGB
load_and_preprocess_image_no_convert(content) ==
    IF content = NoneVal THEN NoneVal
    ELSE normalize(pil_resize(content).px)

\* load_and_preprocess_image: None when the file does not decode
load_and_preprocess_image(content) ==
    IF content = NoneVal THEN NoneVal
    ELSE LET img == IF content.mode # "RGB" THEN pil_convert_rgb(content) ELSE content
         IN  normalize(pil_resize(img).px)

\* line 57: total_color = r_mean + g_mean + b_mean + 0.001
total_color_of(r_mean, g_mean, b_mean) == r_mean + g_mean + b_mean + 1

\* green_dominance_of with the green mean left out of the denominator
green_dominance_of_other_channels(r_mean, g_mean, b_mean) ==
    (g_mean * Unit) \div (r_mean + b_mean + 1)

\* line 58: green_dominance = g_mean / total_color
green_dominance_of(r_mean, g_mean, b_mean) ==
    (g_mean * Unit) \div total_color_of(r_mean, g_mean, b_mean)

analyze_image_features(img_array) ==
    IF img_array = NoneVal THEN NoneVal
    ELSE
    LET img == img_array.batch[1]
        Idx == Side \X Side \X (1..3)
        Pix == Side \X Side
        n == ImgSide * ImgSide * 3
        total == SumFn([i \in Idx |-> img[i[1]][i[2]][i[3]]], Idx)
        totalSq == SumFn([i \in Idx |->
                          img[i[1]][i[2]][i[3]] * img[i[1]][i[2]][i[3]]], Idx)
        brightness == total \div n
        variance == (n * totalSq - total * total) \div (n * n)
        contrast == Sqrt(variance)
        chan(c) == SumFn([i \in Pix |-> img[i[1]][i[2]][c]], Pix)
                       \div (ImgSide * ImgSide)
        r_mean == chan(1)
        g_mean == chan(2)
        b_mean == chan(3)
        green_dominance == green_dominance_of(r_mean, g_mean, b_mean)
        color_balance == Abs(r_mean - b_mean)
        gray == [y \in Side |-> [x \in Side |->
                    (img[y][x][1] + img[y][x][2] + img[y][x][3]) \div 3]]
        DX == Side \X (1..(ImgSide - 1))
        DY == (1..(ImgSide - 1)) \X Side
        edges_x == SumFn([i \in DX |-> Abs(gray[i[1]][i[2] + 1] - gray[i[1]][i[2]])], DX)
                       \div (ImgSide * (ImgSide - 1))
        edges_y == SumFn([i \in DY |-> Abs(gray[i[1] + 1][i[2]] - gray[i[1]][i[2]])], DY)
                       \div (ImgSide * (ImgSide - 1))
        texture_complexity == edges_x + edges_y
    IN  [brightness |-> brightness, contrast |-> contrast,
         green_dominance |-> green_dominance, color_balance |-> color_balance,
         texture_complexity |-> texture_complexity,
         r_mean |-> r_mean, g_mean |-> g_mean, b_mean |-> b_mean]

---------------------------------------------------------------------------
(* test_new_crops_model.py: the heuristic scorer.                          *)

\* primary_health_score with the moderate test placed before the strong one
primary_health_score_reordered(features) ==
    IF features.brightness > 400 /\ features.green_dominance > 300 THEN 750
    ELSE IF features.brightness > 600 /\ features.green_dominance > 350
          /\ features.texture_complexity > 20 THEN 950
    ELSE IF features.brightness < 300 \/ features.green_dominance < 250 THEN 150
    ELSE 450

\* primary_health_score with the moderate tier open from brightness 0.3
primary_health_score_lenient(features) ==
    IF features.brightness > 600 /\ features.green_dominance > 350
          /\ features.texture_complexity > 20 THEN 950
    ELSE IF features.brightness > 300 /\ features.green_dominance > 300 THEN 750
    ELSE IF features.brightness < 300 \/ features.green_dominance < 250 THEN 150
    ELSE 450

\* primary_health_score with `and` for `or` in the affected tier
primary_health_score_conjunctive(features) ==
    IF features.brightness > 600 /\ features.green_dominance > 350
          /\ features.texture_complexity > 20 THEN 950
    ELSE IF features.brightness > 400 /\ features.green_dominance > 300 THEN 750
    ELSE IF features.brightness < 300 /\ features.green_dominance < 250 THEN 150
    ELSE 450

\* lines 89-100: the primary if/elif chain that sets health_score
primary_health_score(features) ==
    IF features.brightness > 600 /\ features.green_dominance > 350
          /\ features.texture_complexity > 20 THEN 950
    ELSE IF features.brightness > 400 /\ features.green_dominance > 300 THEN 750
    ELSE IF features.brightness < 300 \/ features.green_dominance < 250 THEN 150
    ELSE 450

\* fine_tune with the second `if` written as `elif`
fine_tune_elif(features, health_score) ==
    IF 200 < features.contrast /\ features.contrast < 400 THEN health_score + 50
    ELSE IF features.color_balance > 300 THEN health_score - 100
    ELSE health_score

\* lines 103-106: the two independent fine-tuning statements
fine_tune(features, health_score) ==
    LET s1 == IF 200 < features.contrast /\ features.contrast < 400
              THEN health_score + 50 ELSE health_score
    IN  IF features.color_balance > 300 THEN s1 - 100 ELSE s1

\* apply_crop_adjustment without the factor 0.1
apply_crop_adjustment_unscaled(health_score, crop_type) ==
    health_score + get_crop_adjustment(crop_type)

\* lines 109-110: health_score += crop_adjustment * 0.1
apply_crop_adjustment(health_score, crop_type) ==
    health_score + (get_crop_adjustment(crop_type) * 100) \div Unit

\* clamp_prediction with the clamp left out
clamp_prediction_missing(health_score) == health_score

\* line 116: max(0.001, min(0.999, health_score))
clamp_prediction(health_score) == Max(1, Min(999, health_score))

\* The locals of one call with a feature vector; noise is the value
\* np.random.normal(0, 0.01) returns.
simulate_locals(features, crop_type, noise) ==
    LET base == primary_health_score(features)
        tuned == fine_tune(features, base)
        adjusted == apply_crop_adjustment(tuned, crop_type)
        health_score == adjusted + noise
    IN  [base |-> base, tuned |-> tuned, adjusted |-> adjusted,
         health_score |-> health_score,
         final_prediction |-> clamp_prediction(health_score)]

simulate_web_model_prediction(features, crop_type, noise) ==
    IF features = NoneVal THEN 0
    ELSE simulate_locals(features, crop_type, noise).final_prediction

\* the draws of np.random.normal(0, 0.01) the model tries
Noises == {0 - MaxJitter, 0 - 10, 0, 10, MaxJitter}

---------------------------------------------------------------------------
(* Recommendation texts of the two handlers.                               *)

\* get_crop_recommendations_branch without 'spinach' in the leafy test
get_crop_recommendations_branch_no_spinach(crop) ==
    IF Contains(kw_palak, crop) \/ Contains(kw_keerai, crop) THEN "leafy"
    ELSE IF Contains(kw_tomato, crop) THEN "tomato"
    ELSE IF Contains(kw_strawberry, crop) THEN "strawberry"
    ELSE IF Contains(kw_pepper, crop) THEN "pepper"
    ELSE "generic"

\* get_crop_recommendations_branch with pepper tested before strawberry
get_crop_recommendations_branch_pepper_first(crop) ==
    IF Contains(kw_palak, crop) \/ Contains(kw_keerai, crop)
           \/ Contains(kw_spinach, crop) THEN "leafy"
    ELSE IF Contains(kw_tomato, crop) THEN "tomato"
    ELSE IF Contains(kw_pepper, crop) THEN "pepper"
    ELSE IF Contains(kw_strawberry, crop) THEN "strawberry"
    ELSE "generic"

\* api/predict.py: the if/elif chain of get_crop_recommendations (the same
\* chain in the healthy and in the affected half): the branch taken
get_crop_recommendations_branch(crop) ==
    IF Contains(kw_palak, crop) \/ Contains(kw_keerai, crop)
           \/ Contains(kw_spinach, crop) THEN "leafy"
    ELSE IF Contains(kw_tomato, crop) THEN "tomato"
    ELSE IF Contains(kw_strawberry, crop) THEN "strawberry"
    ELSE IF Contains(kw_pepper, crop) THEN "pepper"
    ELSE "generic"

\* api/predict.py: get_crop_recommendations.  The text is the sequence of its literal parts,
\* in order; `subject` is what the f-string puts in front of the first one.
get_crop_recommendations(is_healthy, crop_type) ==
    LET crop == IF Truthy(crop_type) THEN lower(crop_type) ELSE kw_plant
        family == get_crop_recommendations_branch(crop)
    IN  IF is_healthy
        THEN [subject |-> IF Truthy(crop_type) THEN crop_type ELSE kw_plant,
              parts |->
                <<"appears healthy! Continue with current care routine.">>
                \o (CASE family = "leafy" ->
                         <<"Leafy greens benefit from regular harvesting">>
                      [] family = "tomato" ->
                         <<"Monitor for early blight and ensure good air circulation">>
                      [] family = "strawberry" ->
                         <<"Watch for powdery mildew and ensure good drainage">>
                      [] family = "pepper" ->
                         <<"Maintain consistent moisture and watch for bacterial spot">>
                      [] OTHER -> <<>>)
                \o <<"Monitor regularly for any changes in leaf color or texture. Check for pests weekly as prevention.">>]
        ELSE [subject |-> IF Truthy(crop_type) THEN crop_type
                          ELSE <<"P", "l", "a", "n", "t">>,
              parts |->
                <<"shows signs of pest or disease. Immediate actions:",
                  "1) Isolate the plant to prevent spread, 2) Carefully inspect leaves and stems for pests">>
                \o (CASE family = "leafy" ->
                         <<"3) Check for aphids and leaf miners (common in leafy greens), 4) Ensure proper air circulation to prevent downy mildew">>
                      [] family = "tomato" ->
                         <<"3) Check for whiteflies, aphids, and early blight, 4) Remove affected leaves immediately">>
                      [] family = "strawberry" ->
                         <<"3) Look for spider mites and powdery mildew, 4) Improve air circulation and reduce humidity">>
                      [] family = "pepper" ->
                         <<"3) Check for thrips and bacterial spot, 4) Ensure good drainage and avoid overhead watering">>
                      [] OTHER ->
                         <<"3) Check root system for rot or discoloration, 4) Adjust nutrient solution pH and concentration">>)
                \o <<"5) Consider applying organic treatment like neem oil, 6) Monitor closely for 48-72 hours and adjust care as needed.">>]

\* create_ml_api.py: the if/elif chain of get_crop_specific_recommendations
get_crop_specific_recommendations_branch(crop) ==
    IF Contains(kw_palak, crop) \/ Contains(kw_keerai, crop)
           \/ Contains(kw_spinach, crop) THEN "leafy"
    ELSE IF Contains(kw_tomato, crop) THEN "tomato"
    ELSE IF Contains(kw_strawberry, crop) THEN "strawberry"
    ELSE IF Contains(kw_pepper, crop) THEN "pepper"
    ELSE "generic"

\* create_ml_api.py: get_crop_specific_recommendations.  The text is the sequence of its literal parts,
\* in order; `subject` is what the f-string puts in front of the first one.
get_crop_specific_recommendations(is_healthy, crop_type) ==
    LET crop == IF Truthy(crop_type) THEN lower(crop_type) ELSE kw_plant
        family == get_crop_specific_recommendations_branch(crop)
    IN  IF is_healthy
        THEN [subject |-> IF Truthy(crop_type) THEN crop_type ELSE kw_plant,
              parts |->
                <<"appears healthy! Continue with current care routine.">>
                \o (CASE family = "leafy" ->
                         <<"Leafy greens benefit from regular harvesting">>
                      [] family = "tomato" ->
                         <<"Monitor for early blight and ensure good air circulation">>
                      [] family = "strawberry" ->
                         <<"Watch for powdery mildew and ensure good drainage">>
                      [] family = "pepper" ->
                         <<"Maintain consistent moisture and watch for bacterial spot">>
                      [] OTHER -> <<>>)
                \o <<"Monitor regularly for any changes in leaf color or texture. Check for pests weekly as prevention.">>]
        ELSE [subject |-> IF Truthy(crop_type) THEN crop_type
                          ELSE <<"P", "l", "a", "n", "t">>,
              parts |->
                <<"shows signs of pest or disease. Immediate actions:",
                  "1) Isolate the plant to prevent spread, 2) Carefully inspect leaves and stems for pests">>
                \o (CASE family = "leafy" ->
                         <<"3) Check for aphids and leaf miners (common in leafy greens), 4) Ensure proper air circulation to prevent downy mildew">>
                      [] family = "tomato" ->
                         <<"3) Check for whiteflies, aphids, and early blight, 4) Remove affected leaves immediately">>
                      [] family = "strawberry" ->
                         <<"3) Look for spider mites and powdery mildew, 4) Improve air circulation and reduce humidity">>
                      [] family = "pepper" ->
                         <<"3) Check for thrips and bacterial spot, 4) Ensure good drainage and avoid overhead watering">>
                      [] OTHER ->
                         <<"3) Check root system for rot or discoloration, 4) Adjust nutrient solution pH and concentration">>)
                \o <<"5) Consider applying organic treatment like neem oil, 6) Monitor closely for 48-72 hours and adjust care as needed.">>]

---------------------------------------------------------------------------
(* Requests.                                                               *)

\* the values model.predict(...)[0][0] may return, in thousandths
Probabilities == {0, 4, 499, 500, 501, 505, 996, 1000}

\* what model.predict does: returns a probability or raises
Inferences == {[raised |-> FALSE, p |-> v] : v \in Probabilities}
                  \cup {[raised |-> TRUE, p |-> 0]}

a_picture == [mode |-> "RGB", px |-> MkPicture("columns", col_green, col_pale)]

\* The 'image' string of a request: whether it starts with 'data:image',
\* whether it holds a comma, whether what follows is valid base64, and what
\* the decoded bytes hold (a picture, or NoneVal when they are no image).
ImagePayloads ==
    { [data_url |-> FALSE, comma |-> FALSE, b64_ok |-> TRUE, content |-> a_picture],
      [data_url |-> TRUE, comma |-> TRUE, b64_ok |-> TRUE, content |-> a_picture],
      [data_url |-> TRUE, comma |-> FALSE, b64_ok |-> TRUE, content |-> NoneVal],
      [data_url |-> FALSE, comma |-> FALSE, b64_ok |-> FALSE, content |-> NoneVal],
      [data_url |-> FALSE, comma |-> FALSE, b64_ok |-> TRUE, content |-> NoneVal] }

Decodable(image) ==
    (image.data_url => image.comma) /\ image.b64_ok /\ image.content # NoneVal

\* the cropType values the requests of the model carry
RequestLabels ==
    { lbl_Palak, lbl_TOMATO, lbl_pepper_strawberry, lbl_sweet_corn, <<>>, NoneStr }

\* The body of a POST: not JSON at all, a JSON null, or a JSON object with
\* or without the keys 'image' and 'cropType'.
Requests ==
    { [json |-> "malformed"], [json |-> "null"], [json |-> "object", has_image |-> FALSE] }
    \cup { [json |-> "object", has_image |-> TRUE, image |-> i,
            has_crop |-> TRUE, cropType |-> c] : i \in ImagePayloads, c \in RequestLabels }
    \cup { [json |-> "object", has_image |-> TRUE, image |-> i,
            has_crop |-> FALSE] : i \in ImagePayloads }

\* model.predict is reached only with a decodable image: for any other
\* request its outcome is never drawn
InferencesFor(req) ==
    IF req.json = "object" /\ req.has_image /\ Decodable(req.image)
    THEN Inferences
    ELSE {[raised |-> TRUE, p |-> 0]}

\* whether json.dumps(result) and wfile.write succeed; the failure does not
\* depend on the probability, so it is tried with one value only
WriteOutcomes(req, infer) ==
    IF ~infer.raised /\ infer.p = 501 THEN {"ok", "raises"} ELSE {"ok"}

\* data.get('cropType', 'Unknown Crop')
crop_type_of(req) == IF req.has_crop THEN req.cropType ELSE lbl_Unknown_Crop

\* 'model_threshold': 0.5 and the literal of `prediction > 0.5`
model_threshold == 500

---------------------------------------------------------------------------
(* api/predict.py: the Vercel serverless handler.                          *)

\* vercel_load_model that swallows a failed load and returns the empty
\* handle
vercel_load_model_silent(model, h5) ==
    IF model # "None" THEN [raised |-> FALSE, model |-> model, tried |-> FALSE]
    ELSE IF h5 = "absent"
    THEN [raised |-> FALSE, model |-> "None", tried |-> FALSE]
    ELSE IF h5 = "corrupt"
    THEN [raised |-> FALSE, model |-> "None", tried |-> TRUE]
    ELSE [raised |-> FALSE, model |-> "loaded", tried |-> TRUE]

\* vercel_load_model without the test of the cached handle
vercel_load_model_uncached(model, h5) ==
    IF h5 = "absent"
    THEN [raised |-> TRUE, model |-> model, tried |-> FALSE,
          message |-> "Model file new_plant_health_classifier.h5 not found"]
    ELSE IF h5 = "corrupt"
    THEN [raised |-> TRUE, model |-> model, tried |-> TRUE,
          message |-> "Failed to load model"]
    ELSE [raised |-> FALSE, model |-> "loaded", tried |-> TRUE]

\* vercel_load_model that looks for the file before it returns the cached
\* handle
vercel_load_model_checks_file(model, h5) ==
    IF h5 = "absent"
    THEN [raised |-> TRUE, model |-> model, tried |-> FALSE,
          message |-> "Model file new_plant_health_classifier.h5 not found"]
    ELSE IF model # "None" THEN [raised |-> FALSE, model |-> model, tried |-> FALSE]
    ELSE IF h5 = "corrupt"
    THEN [raised |-> TRUE, model |-> "None", tried |-> TRUE,
          message |-> "Failed to load model"]
    ELSE [raised |-> FALSE, model |-> "loaded", tried |-> TRUE]

\* load_model: the cached handle, or a load from disk that may raise;
\* `tried` tells whether tf.keras.models.load_model was executed
vercel_load_model(model, h5) ==
    IF model # "None" THEN [raised |-> FALSE, model |-> model, tried |-> FALSE]
    ELSE IF h5 = "absent"
    THEN [raised |-> TRUE, model |-> "None", tried |-> FALSE,
          message |-> "Model file new_plant_health_classifier.h5 not found"]
    ELSE IF h5 = "corrupt"
    THEN [raised |-> TRUE, model |-> "None", tried |-> TRUE,
          message |-> "Failed to load model"]
    ELSE [raised |-> FALSE, model |-> "loaded", tried |-> TRUE]

\* str(e) of the exception that split(',')[1], base64.b64decode or
\* Image.open raises on the 'image' string; "" when none is raised
decode_error(image) ==
    IF image.data_url /\ ~image.comma THEN "list index out of range"
    ELSE IF ~image.b64_ok THEN "Incorrect padding"
    ELSE IF image.content = NoneVal THEN "cannot identify image file"
    ELSE ""

\* f"Image preprocessing failed: {str(e)}"
preprocessing_failed(cause) ==
    CASE cause = "list index out of range" ->
            "Image preprocessing failed: list index out of range"
      [] cause = "Incorrect padding" ->
            "Image preprocessing failed: Incorrect padding"
      [] cause = "cannot identify image file" ->
            "Image preprocessing failed: cannot identify image file"

\* preprocess_image: every failure is re-raised as an Exception
vercel_preprocess_image(image) ==
    IF decode_error(image) # ""
    THEN [raised |-> TRUE, message |-> preprocessing_failed(decode_error(image))]
    ELSE LET img == IF image.content.mode # "RGB" THEN pil_convert_rgb(image.content)
                    ELSE image.content
         IN  [raised |-> FALSE, img_array |-> normalize(pil_resize(img).px)]

\* vercel_decide with `>=` for `>`
vercel_decide_inclusive(prediction) ==
    LET is_healthy == prediction >= 500
    IN  [is_healthy |-> is_healthy,
         confidence |-> ((IF is_healthy THEN prediction ELSE Unit - prediction) * 100)
                            \div Unit]

\* vercel_decide with the confidence rounded to nearest instead of truncated
vercel_decide_rounded(prediction) ==
    LET is_healthy == prediction > 500
    IN  [is_healthy |-> is_healthy,
         confidence |-> ((IF is_healthy THEN prediction ELSE Unit - prediction) * 100
                             + Unit \div 2) \div Unit]

\* lines 139-140: is_healthy and confidence
vercel_decide(prediction) ==
    LET is_healthy == prediction > 500
    IN  [is_healthy |-> is_healthy,
         confidence |-> ((IF is_healthy THEN prediction ELSE Unit - prediction) * 100)
                            \div Unit]

\* lines 146-158: the result dict
vercel_result(prediction, crop_type) ==
    LET d == vercel_decide(prediction)
    IN  [prediction |-> IF d.is_healthy THEN "Healthy Plant"
                        ELSE "Affected Plant (Pest/Disease detected)",
         confidence |-> d.confidence,
         is_healthy |-> d.is_healthy,
         recommendations |-> get_crop_recommendations(d.is_healthy, crop_type),
         model_info |->
            [raw_prediction_value |-> prediction,
             model_threshold |-> model_threshold,
             interpretation |-> [value |-> prediction,
                                 relation |-> IF d.is_healthy THEN ">" ELSE "<=",
                                 threshold |-> 500],
             model_type |-> "Real H5 Model (Vercel Serverless)",
             crop_type |-> crop_type]]

\* send_error_response(code, message)
send_error_response(code, message) ==
    [status |-> code, body |-> [error |-> message, code |-> code]]

\* do_POST: the response written, the global model afterwards, whether
\* model.predict was called, and whether load_model executed
\* tf.keras.models.load_model and assigned the global
do_POST(req, infer, model, h5) ==
    LET failed(code, message, m) ==
            [response |-> send_error_response(code, message), model |-> m,
             predicted |-> FALSE, tried |-> FALSE, assigned |-> FALSE]
    IN
    IF req.json = "malformed"
    THEN failed(500, "Expecting value: line 1 column 1 (char 0)", model)
    ELSE IF req.json = "null"
    THEN failed(500, "argument of type 'NoneType' is not iterable", model)
    ELSE IF ~req.has_image
    THEN failed(400, "No image data provided", model)
    ELSE
    LET loaded == vercel_load_model(model, h5)
        assigned == loaded.tried /\ ~loaded.raised
    IN
    IF loaded.raised
    THEN [failed(500, loaded.message, loaded.model) EXCEPT !.tried = loaded.tried]
    ELSE
    LET pre == vercel_preprocess_image(req.image)
    IN
    IF pre.raised
    THEN [failed(500, pre.message, loaded.model)
              EXCEPT !.tried = loaded.tried, !.assigned = assigned]
    ELSE IF infer.raised
    THEN [response |-> send_error_response(500, "inference failed"),
          model |-> loaded.model, predicted |-> TRUE,
          tried |-> loaded.tried, assigned |-> assigned]
    ELSE [response |-> [status |-> 200,
                        body |-> vercel_result(infer.p, crop_type_of(req))],
          model |-> loaded.model, predicted |-> TRUE,
          tried |-> loaded.tried, assigned |-> assigned]

\* what send_response(code) ... wfile.write(body) put on the socket
wire_of(response) ==
    << [kind |-> "status", code |-> response.status],
       [kind |-> "body", code |-> response.status] >>

\* lines 160-171: the 200 status line and the headers are sent, then
\* json.dumps(result) and wfile.write run inside the same try; when they
\* raise (emit = "raises"), the except branch calls send_error_response
write_result(response, emit) ==
    IF response.status = 200 /\ emit = "raises"
    THEN LET error == send_error_response(500,
                          "Object of type bool_ is not JSON serializable")
         IN  [response |-> error,
              wire |-> <<[kind |-> "status", code |-> 200]>> \o wire_of(error)]
    ELSE [response |-> response, wire |-> wire_of(response)]

---------------------------------------------------------------------------
(* api/health.py: the Vercel health function.                              *)

\* do_GET: model_available tells whether a model file exists at one of the
\* four paths
do_GET(h5) ==
    [status |-> 200,
     body |-> [status |-> "healthy", model_available |-> h5 # "absent",
               message |-> "Plant Health ML API is running on Vercel",
               platform |-> "Vercel Serverless"]]

---------------------------------------------------------------------------
(* create_ml_api.py: the Flask application.                                *)

\* load_model: True and the handle set, or False and the global untouched
flask_load_model(model, h5) ==
    IF h5 = "valid" THEN [ok |-> TRUE, model |-> "loaded", tried |-> TRUE]
    ELSE [ok |-> FALSE, model |-> model, tried |-> h5 = "corrupt"]

\* preprocess_image: None on any failure
flask_preprocess_image(image) ==
    IF (image.data_url /\ ~image.comma) \/ ~image.b64_ok \/ image.content = NoneVal
    THEN NoneVal
    ELSE LET img == IF image.content.mode # "RGB" THEN pil_convert_rgb(image.content)
                    ELSE image.content
         IN  normalize(pil_resize(img).px)

\* flask_decide with the confidence always taken from the healthy class
flask_decide_one_sided(prediction) ==
    LET is_healthy == prediction > 500
    IN  [is_healthy |-> is_healthy, confidence |-> (prediction * 100) \div Unit]

\* lines 151-152: is_healthy and confidence
flask_decide(prediction) ==
    LET is_healthy == prediction > 500
    IN  [is_healthy |-> is_healthy,
         confidence |-> ((IF is_healthy THEN prediction ELSE Unit - prediction) * 100)
                            \div Unit]

\* flask_result with the label chosen by `prediction >= 0.5`
flask_result_relabelled(prediction, crop_type) ==
    LET d == flask_decide(prediction)
    IN  [prediction |-> IF prediction >= 500 THEN "Healthy Plant"
                        ELSE "Affected Plant (Pest/Disease detected)",
         confidence |-> d.confidence,
         is_healthy |-> d.is_healthy,
         recommendations |-> get_crop_specific_recommendations(d.is_healthy, crop_type),
         model_info |->
            [raw_prediction_value |-> prediction,
             model_threshold |-> model_threshold,
             interpretation |-> [value |-> prediction,
                                 relation |-> IF d.is_healthy THEN ">" ELSE "<=",
                                 threshold |-> 500],
             model_type |-> "Real H5 Model (new_plant_health_classifier)",
             crop_type |-> crop_type]]

\* lines 158-170: the result dict
flask_result(prediction, crop_type) ==
    LET d == flask_decide(prediction)
    IN  [prediction |-> IF d.is_healthy THEN "Healthy Plant"
                        ELSE "Affected Plant (Pest/Disease detected)",
         confidence |-> d.confidence,
         is_healthy |-> d.is_healthy,
         recommendations |-> get_crop_specific_recommendations(d.is_healthy, crop_type),
         model_info |->
            [raw_prediction_value |-> prediction,
             model_threshold |-> model_threshold,
             interpretation |-> [value |-> prediction,
                                 relation |-> IF d.is_healthy THEN ">" ELSE "<=",
                                 threshold |-> 500],
             model_type |-> "Real H5 Model (new_plant_health_classifier)",
             crop_type |-> crop_type]]

\* health_check: GET /health of create_ml_api.py
health_check(model) ==
    [status |-> 200,
     body |-> [status |-> "healthy", model_loaded |-> model # "None",
               message |-> "Plant Health ML API is running"]]

\* predict with the test of the 'image' field placed before the test of the model
predict_image_first(req, infer, model) ==
    LET answer(code, error, message, called) ==
            [response |-> [status |-> code,
                           body |-> [error |-> error, message |-> message]],
             predicted |-> called]
    IN
    IF req.json = "malformed"
    THEN answer(500, "Prediction failed", "400 Bad Request", FALSE)
    ELSE IF req.json = "null" \/ ~req.has_image
    THEN answer(400, "No image data provided",
                "Please provide image data in base64 format", FALSE)
    ELSE IF model = "None"
    THEN answer(500, "Model not loaded", "H5 model failed to load", FALSE)
    ELSE IF flask_preprocess_image(req.image) = NoneVal
    THEN answer(400, "Image preprocessing failed",
                "Could not process the provided image", FALSE)
    ELSE IF infer.raised
    THEN answer(500, "Prediction failed", "inference failed", TRUE)
    ELSE [response |-> [status |-> 200,
                        body |-> flask_result(infer.p, crop_type_of(req))],
          predicted |-> TRUE]

\* predict: the response returned and whether model.predict was called
predict(req, infer, model) ==
    LET answer(code, error, message, called) ==
            [response |-> [status |-> code,
                           body |-> [error |-> error, message |-> message]],
             predicted |-> called]
    IN
    IF model = "None"
    THEN answer(500, "Model not loaded", "H5 model failed to load", FALSE)
    ELSE IF req.json = "malformed"
    THEN answer(500, "Prediction failed", "400 Bad Request", FALSE)
    ELSE IF req.json = "null" \/ ~req.has_image
    THEN answer(400, "No image data provided",
                "Please provide image data in base64 format", FALSE)
    ELSE IF flask_preprocess_image(req.image) = NoneVal
    THEN answer(400, "Image preprocessing failed",
                "Could not process the provided image", FALSE)
    ELSE IF infer.raised
    THEN answer(500, "Prediction failed", "inference failed", TRUE)
    ELSE [response |-> [status |-> 200,
                        body |-> flask_result(infer.p, crop_type_of(req))],
          predicted |-> TRUE]

---------------------------------------------------------------------------
(* test_new_crops_model.py: the labelled-image test loop.                  *)

file_arai_healthy == <<"a", "r", "a", "i", "_", "h", "e", "a", "l", "t", "h", "y", "_", "1", ".", "j", "p", "g">>
file_Arai_unhealthy == <<"A", "r", "a", "i", "_", "U", "n", "h", "e", "a", "l", "t", "h", "y", "_", "2", ".", "J", "P", "G">>
file_palak_healthy == <<"p", "a", "l", "a", "k", "_", "h", "e", "a", "l", "t", "h", "y", ".", "p", "n", "g">>
file_palak_unhealthy == <<"p", "a", "l", "a", "k", "_", "u", "n", "h", "e", "a", "l", "t", "h", "y", ".", "j", "p", "e", "g">>
file_siru_healthy == <<"s", "i", "r", "u", "_", "h", "e", "a", "l", "t", "h", "y", ".", "j", "p", "g">>
file_siru_unhealthy == <<"s", "i", "r", "u", "_", "u", "n", "h", "e", "a", "l", "t", "h", "y", ".", "j", "p", "g">>
file_leaf == <<"l", "e", "a", "f", ".", "j", "p", "g">>
file_palak_arai == <<"p", "a", "l", "a", "k", "_", "a", "r", "a", "i", "_", "u", "n", "h", "e", "a", "l", "t", "h", "y", ".", "p", "n", "g">>

Filenames ==
    { file_arai_healthy, file_Arai_unhealthy, file_palak_healthy,
      file_palak_unhealthy, file_siru_healthy, file_siru_unhealthy, file_leaf,
      file_palak_arai }

\* parse_filename testing 'palak' before 'arai'
parse_filename_palak_first(filename) ==
    LET name == lower(filename)
    IN  [crop_type |->
            IF Contains(kw_palak, name) THEN lbl_palak
            ELSE IF Contains(kw_arai, name) THEN lbl_arai_keerai
            ELSE IF Contains(kw_siru, name) THEN lbl_siru_keerai
            ELSE lbl_unknown,
         expected_healthy |->
            IF Contains(kw_unhealthy, name) THEN FALSE
            ELSE IF Contains(kw_healthy, name) THEN TRUE
            ELSE TRUE]

parse_filename(filename) ==
    LET name == lower(filename)
    IN  [crop_type |->
            IF Contains(kw_arai, name) THEN lbl_arai_keerai
            ELSE IF Contains(kw_palak, name) THEN lbl_palak
            ELSE IF Contains(kw_siru, name) THEN lbl_siru_keerai
            ELSE lbl_unknown,
         expected_healthy |->
            IF Contains(kw_unhealthy, name) THEN FALSE
            ELSE IF Contains(kw_healthy, name) THEN TRUE
            ELSE TRUE]

\* test_model_with_real_h5: the handle, or None
test_model_with_real_h5(h5) == IF h5 = "valid" THEN "loaded" ELSE "None"

\* sim_is_healthy with `>=` for `>`
sim_is_healthy_inclusive(sim_prediction) == sim_prediction >= 500

\* line 222: sim_healthy = sim_prediction > 0.5
sim_is_healthy(sim_prediction) == sim_prediction > 500

\* lines 204-255: the body of the loop of test_all_images for one file;
\* skipped is the `continue` of line 215
test_one_image(filename, content, noise, h5_model, infer) ==
    LET parsed == parse_filename(filename)
        img_array == load_and_preprocess_image(content)
    IN
    IF img_array = NoneVal THEN [skipped |-> TRUE]
    ELSE
    LET features == analyze_image_features(img_array)
        sim_prediction == simulate_web_model_prediction(features, parsed.crop_type, noise)
        sim_healthy == sim_is_healthy(sim_prediction)
        sim_correct == (sim_healthy = parsed.expected_healthy)
        h5_ran == h5_model # "None" /\ ~infer.raised
    IN  [skipped |-> FALSE,
         sim_healthy |-> sim_healthy,
         result |->
            [filename |-> filename,
             crop_type |-> parsed.crop_type,
             expected_healthy |-> parsed.expected_healthy,
             features |-> features,
             simulation_prediction |-> sim_prediction,
             simulation_correct |-> sim_correct,
             h5_prediction |-> IF h5_ran THEN [value |-> infer.p] ELSE NoneVal,
             h5_correct |-> IF h5_ran
                            THEN [value |-> ((infer.p > 500) = parsed.expected_healthy)]
                            ELSE NoneVal]]

---------------------------------------------------------------------------
(* The state machine.  A process runs one of three programs: the test      *)
(* script, whose call and arguments are drawn at the start, or one of the  *)
(* two servers, which answer one request after the other.                  *)

\* the Python test `s.endswith(suffix)`
endswith(s, suffix) ==
    Len(s) >= Len(suffix) /\ SubSeq(s, Len(s) - Len(suffix) + 1, Len(s)) = suffix

ext_jpg == <<".", "j", "p", "g">>
ext_jpeg == <<".", "j", "p", "e", "g">>
ext_png == <<".", "p", "n", "g">>

file_notes == <<"n", "o", "t", "e", "s", ".", "t", "x", "t">>

\* line 202: the filter of the directory listing
is_image_file(f) ==
    \E suffix \in {ext_jpg, ext_jpeg, ext_png} : endswith(lower(f), suffix)

\* the names a test folder may hold, in the order image_files.sort() gives
\* them (code-point order: "A" < "a" < "l" < "n" < "p")
FolderNames ==
    <<file_Arai_unhealthy, file_arai_healthy, file_leaf, file_notes,
      file_palak_unhealthy>>

\* how many of FolderNames a test folder is drawn from
MaxFiles == 4

\* what a file of the folder decodes to: a bright green picture, or nothing
\* that PIL can open
FolderContents == {UniformFile(col_lime), NoneVal}

\* the test folder: missing, or a directory of some of the names
TestFolders ==
    {[exists |-> FALSE, files |-> <<>>]}
        \cup {[exists |-> TRUE, files |-> d] :
                d \in UNION {[S -> FolderContents] :
                        S \in SUBSET {FolderNames[k] : k \in 1..MaxFiles}}}

\* lines 202-203: the image files of the folder, filtered and sorted
image_files_of(files) ==
    SelectSeq(FolderNames, LAMBDA f : f \in DOMAIN files /\ is_image_file(f))

\* lines 193-195 with the listing: the state of the loop before the first file
test_all_images_begin(folder, h5) ==
    [image_files |-> image_files_of(folder.files),
     h5_model |-> test_model_with_real_h5(h5),
     i |-> 0,
     results |-> <<>>,
     correct_predictions |-> 0,
     total_predictions |-> 0]

\* test_all_images_file counting a file before it is loaded
test_all_images_file_counts_unloaded(acc, content, noise, infer) ==
    LET filename == acc.image_files[acc.i + 1]
        one == test_one_image(filename, content, noise, acc.h5_model, infer)
        counted == [acc EXCEPT !.i = @ + 1, !.total_predictions = @ + 1]
    IN  IF one.skipped THEN counted
        ELSE [counted EXCEPT
                !.results = Append(@, one.result),
                !.correct_predictions =
                    IF one.result.simulation_correct THEN @ + 1 ELSE @]

\* lines 204-255: one pass of the loop over image_files
test_all_images_file(acc, content, noise, infer) ==
    LET filename == acc.image_files[acc.i + 1]
        one == test_one_image(filename, content, noise, acc.h5_model, infer)
        next == [acc EXCEPT !.i = @ + 1]
    IN  IF one.skipped THEN next
        ELSE [next EXCEPT
                !.results = Append(@, one.result),
                !.correct_predictions =
                    IF one.result.simulation_correct THEN @ + 1 ELSE @,
                !.total_predictions = @ + 1]

\* lines 263-271: the per-crop counters built from results
crop_results_of(results) ==
    [crop \in {results[k].crop_type : k \in DOMAIN results} |->
        [correct |-> Cardinality({k \in DOMAIN results :
                        results[k].crop_type = crop /\ results[k].simulation_correct}),
         total |-> Cardinality({k \in DOMAIN results : results[k].crop_type = crop})]]

\* line 258: the accuracy in thousandths of a percent
accuracy_of(correct_predictions, total_predictions) ==
    IF total_predictions > 0
    THEN (correct_predictions * 100 * Unit) \div total_predictions
    ELSE 0

\* lines 257-291: what follows the loop
test_all_images_end(acc) ==
    LET accuracy == accuracy_of(acc.correct_predictions, acc.total_predictions)
    IN  [results |-> acc.results,
         correct_predictions |-> acc.correct_predictions,
         total_predictions |-> acc.total_predictions,
         accuracy |-> accuracy,
         crop_results |-> crop_results_of(acc.results),
         test_results_json |-> acc.results,
         suggested |-> accuracy < 80 * Unit,
         returned |-> acc.results]

\* the parts file names are put together from: crop words in lower, upper
\* and mixed case, verdict words, and words that are neither
part_ARAI == <<"A", "R", "A", "I">>
part_Palak == <<"P", "a", "l", "a", "k">>
part_SiRu == <<"S", "i", "R", "u">>
part_leaf == <<"l", "e", "a", "f">>
part_ara == <<"a", "r", "a">>
part_Healthy == <<"_", "H", "e", "a", "l", "t", "h", "y">>
part_UNHEALTHY == <<"_", "U", "N", "H", "E", "A", "L", "T", "H", "Y">>
part_healthy_unhealthy ==
    <<"_", "h", "e", "a", "l", "t", "h", "y", "_", "u", "n", "h", "e", "a", "l", "t", "h", "y">>
part_health == <<"_", "h", "e", "a", "l", "t", "h">>

CropParts ==
    {<<>>, kw_arai, part_ARAI, kw_palak, part_Palak, kw_siru, part_SiRu, part_leaf,
     part_ara}

VerdictParts ==
    {<<>>, part_Healthy, part_UNHEALTHY, part_healthy_unhealthy, part_health}

\* names with none, one or two crop words in either order, and a verdict
ParseNames ==
    Filenames \cup {a \o b \o v \o ext_jpg : a \in CropParts, b \in CropParts,
                                              v \in VerdictParts}

ParseCalls == {[call |-> "parse_filename", filename |-> f] : f \in ParseNames}

FolderCalls == {[call |-> "test_all_images", folder |-> d] : d \in TestFolders}

---------------------------------------------------------------------------
(* convert_new_h5_model.py: the conversion script.                         *)

\* what the environment of one run of the script does: whether the model
\* file exists, and the outcome of every call that leaves the script
\* (os.makedirs, the two subprocess.run calls, the in-process conversion,
\* the write of the metadata file, the listing read by verify_conversion)
ConvertRuns ==
    [call : {"main"},
     h5_exists : BOOLEAN,
     makedirs : {"ok", "OSError"},
     run1 : {"zero", "nonzero", "TimeoutExpired", "FileNotFoundError", "PermissionError"},
     run2 : {"zero", "nonzero", "TimeoutExpired"},
     method3 : {"ok", "Exception"},
     write_metadata : {"ok", "OSError"},
     has_model_json : BOOLEAN]

\* lines 12-22
check_model_exists(env) == env.h5_exists

\* lines 47-55: Method 1 returns True, falls through to Method 2, or lets
\* the exception go (only TimeoutExpired and FileNotFoundError are caught)
method1(outcome) ==
    CASE outcome = "zero" -> "return"
      [] outcome \in {"nonzero", "TimeoutExpired", "FileNotFoundError"} -> "next"
      [] OTHER -> "raise"

\* lines 68-76: Method 2 (only TimeoutExpired is caught)
method2(outcome) ==
    CASE outcome = "zero" -> "return"
      [] outcome \in {"nonzero", "TimeoutExpired"} -> "next"
      [] OTHER -> "raise"

\* lines 80-94: Method 3 (every Exception is caught)
method3(outcome) == IF outcome = "ok" THEN "return" ELSE "next"

\* lines 31-96: the methods that ran, in order, and how the function ended
\* (raised: an exception left it; else success is the value returned)
try_conversion_methods(env) ==
    LET m1 == method1(env.run1)
        m2 == method2(env.run2)
        m3 == method3(env.method3)
    IN  CASE m1 = "return" ->
                [events |-> <<"method1">>, raised |-> FALSE, success |-> TRUE]
          [] m1 = "raise" ->
                [events |-> <<"method1">>, raised |-> TRUE, success |-> FALSE]
          [] m1 = "next" /\ m2 = "return" ->
                [events |-> <<"method1", "method2">>, raised |-> FALSE, success |-> TRUE]
          [] m1 = "next" /\ m2 = "raise" ->
                [events |-> <<"method1", "method2">>, raised |-> TRUE, success |-> FALSE]
          [] OTHER ->
                [events |-> <<"method1", "method2", "method3">>, raised |-> FALSE,
                 success |-> m3 = "return"]

\* lines 140-166: the value verify_conversion returns (main drops it)
verify_conversion(env) == env.has_model_json

\* lines 168-201: main and the exit of lines 199-201, one run of the script. events are the steps
\* that ran, in order; raised tells that an exception left main, and then
\* the interpreter exits with code 1; else the exit code is that of line 201
main(env) ==
    LET Ended(events, raised, returned) ==
            [events |-> events, raised |-> raised, returned |-> returned,
             exit_code |-> IF ~raised /\ returned THEN 0 ELSE 1]
        tried == try_conversion_methods(env)
        upto_methods == <<"check_model_exists", "create_output_directory">> \o tried.events
        upto_metadata == upto_methods \o <<"create_model_metadata">>
    IN  IF ~check_model_exists(env)
        THEN Ended(<<"check_model_exists">>, FALSE, FALSE)
        ELSE IF env.makedirs # "ok"
        THEN Ended(<<"check_model_exists">>, TRUE, FALSE)
        ELSE IF tried.raised
        THEN Ended(upto_methods, TRUE, FALSE)
        ELSE IF env.write_metadata # "ok"
        THEN Ended(upto_methods, TRUE, FALSE)
        ELSE IF tried.success
        THEN Ended(upto_metadata \o <<"verify_conversion">>, FALSE, TRUE)
        ELSE Ended(upto_metadata, FALSE, FALSE)

Pending == [pending |-> TRUE]

\* what h5_model.predict does in the test loop, when there is a model
TestInferences == {[raised |-> FALSE, p |-> 750], [raised |-> TRUE, p |-> 0]}

Calls ==
    { [call |-> "simulate", content |-> c, crop_type |-> l, noise |-> z] :
          c \in FileContents, l \in ScorerLabels, z \in Noises }
    \cup { [call |-> "get_crop_adjustment", crop_type |-> l] : l \in CropLabels }
    \cup { [call |-> "test_image", filename |-> f, content |-> c, noise |-> z,
            infer |-> i] :
          f \in Filenames, c \in TestFileContents, z \in Noises, i \in TestInferences }

\* feature dicts built by hand, one or two for every primary tier, each
\* with and without the contrast and the colour-balance adjustment
FeatureVectors ==
    { [brightness |-> t[1], green_dominance |-> t[2], texture_complexity |-> t[3],
       contrast |-> c, color_balance |-> b,
       r_mean |-> 0, g_mean |-> 0, b_mean |-> 0] :
          t \in { <<700, 400, 50>>, <<500, 320, 0>>, <<200, 400, 0>>,
                  <<500, 200, 0>>, <<350, 280, 0>> },
          c \in {100, 300}, b \in {0, 400} }

\* direct calls of simulate_web_model_prediction on such a dict, with a
\* jitter draw of 0
ScoreCalls ==
    { [call |-> "score", features |-> f, crop_type |-> l, noise |-> 0] :
          f \in FeatureVectors, l \in ScorerLabels }

\* direct calls of the image normalizer of a program, on the bytes of a
\* file or of a request's image
PreprocessCalls ==
    { [call |-> "preprocess", content |-> c] : c \in RawFiles \cup {NoneVal} }

\* the 'image' string that carries the given bytes as a data URL
AsPayload(content) ==
    [data_url |-> TRUE, comma |-> TRUE, b64_ok |-> TRUE, content |-> content]

\* direct calls of the recommendation function of a handler module
RecommendationCalls ==
    { [call |-> "recommendations", is_healthy |-> h, crop_type |-> l] :
          h \in BOOLEAN, l \in CropLabels }

Init ==
    /\ vercel_model = "None"
    /\ flask_model = "None"
    /\ flask_state = "init"
    /\ h5_file \in {"absent", "valid", "corrupt"}
    /\ out = Pending
    /\ load_calls = 0
    /\ model_sets = 0
    /\ wire = <<>>
    /\ \/ /\ program = "test_script"
          /\ op = "call"
          /\ inp \in Calls \cup PreprocessCalls \cup ScoreCalls \cup FolderCalls
                    \cup ParseCalls
          /\ inp.call \in {"test_image", "test_all_images"} \/ h5_file = "absent"
          /\ inp.call = "test_image" /\ h5_file # "valid" => inp.infer.raised
       \/ /\ program = "convert"
          /\ op = "call"
          /\ inp \in ConvertRuns
          /\ h5_file = "absent"
       \/ /\ program \in {"vercel", "flask"}
          /\ op = "start"
          /\ inp = NoneVal
       \/ /\ program \in {"vercel", "flask"}
          /\ op = "call"
          /\ inp \in RecommendationCalls \cup PreprocessCalls
          /\ h5_file = "absent"

\* a direct call of simulate_web_model_prediction on the features of a file
Simulate ==
    /\ program = "test_script" /\ op = "call" /\ inp.call = "simulate"
    /\ LET features == analyze_image_features(load_and_preprocess_image(inp.content))
       IN  out' = [features |-> features,
                   locals |-> IF features = NoneVal THEN NoneVal
                              ELSE simulate_locals(features, inp.crop_type, inp.noise),
                   result |-> simulate_web_model_prediction(features, inp.crop_type,
                                                            inp.noise)]
    /\ op' = "simulate_web_model_prediction"
    /\ UNCHANGED <<vercel_model, flask_model, flask_state, program, h5_file, inp,
                   load_calls, model_sets, wire>>

\* a direct call of simulate_web_model_prediction on a feature dict
Score ==
    /\ program = "test_script" /\ op = "call" /\ inp.call = "score"
    /\ out' = [features |-> inp.features,
               locals |-> simulate_locals(inp.features, inp.crop_type, inp.noise),
               result |-> simulate_web_model_prediction(inp.features, inp.crop_type,
                                                        inp.noise)]
    /\ op' = "score"
    /\ UNCHANGED <<vercel_model, flask_model, flask_state, program, h5_file, inp,
                   load_calls, model_sets, wire>>

\* a direct call of get_crop_adjustment
GetCropAdjustment ==
    /\ program = "test_script" /\ op = "call" /\ inp.call = "get_crop_adjustment"
    /\ out' = [branch |-> get_crop_adjustment_branch(inp.crop_type),
               result |-> get_crop_adjustment(inp.crop_type)]
    /\ op' = "get_crop_adjustment"
    /\ UNCHANGED <<vercel_model, flask_model, flask_state, program, h5_file, inp,
                   load_calls, model_sets, wire>>

\* one iteration of the loop of test_all_images
TestImage ==
    /\ program = "test_script" /\ op = "call" /\ inp.call = "test_image"
    /\ out' = test_one_image(inp.filename, inp.content, inp.noise,
                             test_model_with_real_h5(h5_file), inp.infer)
    /\ op' = "test_all_images"
    /\ UNCHANGED <<vercel_model, flask_model, flask_state, program, h5_file, inp,
                   load_calls, model_sets, wire>>

\* one run of convert_new_h5_model.py
ConvertMain ==
    /\ program = "convert" /\ op = "call" /\ inp.call = "main"
    /\ out' = main(inp)
    /\ op' = "main"
    /\ UNCHANGED <<vercel_model, flask_model, flask_state, program, h5_file, inp,
                   load_calls, model_sets, wire>>

\* a direct call of parse_filename
ParseFilename ==
    /\ program = "test_script" /\ op = "call" /\ inp.call = "parse_filename"
    /\ out' = parse_filename(inp.filename)
    /\ op' = "parse_filename"
    /\ UNCHANGED <<vercel_model, flask_model, flask_state, program, h5_file, inp,
                   load_calls, model_sets, wire>>

\* test_all_images up to the loop: the early return when the folder is
\* missing, else the model, the counters and the listing
TestAllImagesBegin ==
    /\ program = "test_script" /\ op = "call" /\ inp.call = "test_all_images"
    /\ IF inp.folder.exists
       THEN /\ op' = "test_all_images_loop"
            /\ out' = test_all_images_begin(inp.folder, h5_file)
       ELSE /\ op' = "test_all_images_return"
            /\ out' = NoneVal
    /\ UNCHANGED <<vercel_model, flask_model, flask_state, program, h5_file, inp,
                   load_calls, model_sets, wire>>

\* the next file of image_files goes through the body of the loop
TestAllImagesFile ==
    /\ program = "test_script" /\ op = "test_all_images_loop"
    /\ out.i < Len(out.image_files)
    /\ \E noise \in {0, MaxJitter} :
       \E infer \in IF out.h5_model = "None" THEN {[raised |-> TRUE, p |-> 0]}
                    ELSE TestInferences :
          out' = test_all_images_file(out, inp.folder.files[out.image_files[out.i + 1]],
                                      noise, infer)
    /\ UNCHANGED <<vercel_model, flask_model, flask_state, program, h5_file, op,
                   inp, load_calls, model_sets, wire>>

\* the loop is over: accuracy, per-crop counters, the saved file, the return
TestAllImagesEnd ==
    /\ program = "test_script" /\ op = "test_all_images_loop"
    /\ out.i = Len(out.image_files)
    /\ op' = "test_all_images_return"
    /\ out' = test_all_images_end(out)
    /\ UNCHANGED <<vercel_model, flask_model, flask_state, program, h5_file, inp,
                   load_calls, model_sets, wire>>

\* a direct call of load_and_preprocess_image (test_new_crops_model.py) or
\* of preprocess_image (api/predict.py, create_ml_api.py); img_array is
\* NoneVal when the function returned None or raised
Preprocess ==
    /\ op = "call" /\ inp.call = "preprocess"
    /\ out' = [img_array |->
                 CASE program = "test_script" -> load_and_preprocess_image(inp.content)
                   [] program = "vercel" ->
                        LET r == vercel_preprocess_image(AsPayload(inp.content))
                        IN  IF r.raised THEN NoneVal ELSE r.img_array
                   [] OTHER -> flask_preprocess_image(AsPayload(inp.content))]
    /\ op' = "preprocess_image"
    /\ UNCHANGED <<vercel_model, flask_model, flask_state, program, h5_file, inp,
                   load_calls, model_sets, wire>>

\* a direct call of get_crop_recommendations (api/predict.py) or of
\* get_crop_specific_recommendations (create_ml_api.py)
GetRecommendations ==
    /\ program \in {"vercel", "flask"} /\ op = "call"
    /\ inp.call = "recommendations"
    /\ out' = IF program = "vercel"
              THEN get_crop_recommendations(inp.is_healthy, inp.crop_type)
              ELSE get_crop_specific_recommendations(inp.is_healthy, inp.crop_type)
    /\ op' = "get_crop_recommendations"
    /\ UNCHANGED <<vercel_model, flask_model, flask_state, program, h5_file, inp,
                   load_calls, model_sets, wire>>

\* api/predict.py answers one POST
VercelPost ==
    /\ program = "vercel" /\ op # "call"
    /\ \E req \in Requests : \E infer \in InferencesFor(req) :
          LET r == do_POST(req, infer, vercel_model, h5_file)
          IN  /\ r.tried => load_calls < MaxLoads
              /\ vercel_model' = r.model
              /\ load_calls' = load_calls + (IF r.tried THEN 1 ELSE 0)
              /\ model_sets' = model_sets + (IF r.assigned THEN 1 ELSE 0)
              /\ \E emit \in WriteOutcomes(req, infer) :
                    /\ inp' = [request |-> req,
                               infer |-> IF r.predicted THEN infer ELSE NoneVal,
                               emit |-> emit]
                    /\ out' = write_result(r.response, emit).response
                    /\ wire' = write_result(r.response, emit).wire
    /\ op' = "do_POST"
    /\ UNCHANGED <<flask_model, flask_state, program, h5_file>>

\* create_ml_api.py run as a script: load the model, then serve or exit(1)
FlaskMain ==
    /\ program = "flask" /\ flask_state = "init" /\ op # "call"
    /\ LET r == flask_load_model(flask_model, h5_file)
       IN  /\ flask_model' = r.model
           /\ flask_state' = IF r.ok THEN "serving" ELSE "exited"
           /\ load_calls' = load_calls + (IF r.tried THEN 1 ELSE 0)
           /\ model_sets' = model_sets + (IF r.ok THEN 1 ELSE 0)
    /\ op' = "main"
    /\ inp' = NoneVal
    /\ out' = Pending
    /\ UNCHANGED <<vercel_model, program, h5_file, wire>>

\* create_ml_api.app served by a WSGI server: the __main__ block does not
\* run and load_model is never called
FlaskServe ==
    /\ program = "flask" /\ flask_state = "init" /\ op # "call"
    /\ flask_state' = "serving"
    /\ op' = "import"
    /\ inp' = NoneVal
    /\ out' = Pending
    /\ UNCHANGED <<vercel_model, flask_model, program, h5_file, load_calls, model_sets, wire>>

\* create_ml_api.py answers one POST /predict
FlaskPredict ==
    /\ program = "flask" /\ flask_state = "serving"
    /\ \E req \in Requests : \E infer \in InferencesFor(req) :
          LET r == predict(req, infer, flask_model)
          IN  /\ inp' = [request |-> req,
                         infer |-> IF r.predicted THEN infer ELSE NoneVal]
              /\ out' = r.response
    /\ op' = "predict"
    /\ UNCHANGED <<vercel_model, flask_model, flask_state, program, h5_file,
                   load_calls, model_sets, wire>>

\* api/health.py answers one GET
VercelHealth ==
    /\ program = "vercel" /\ op # "call"
    /\ out' = do_GET(h5_file)
    /\ op' = "do_GET"
    /\ inp' = NoneVal
    /\ UNCHANGED <<vercel_model, flask_model, flask_state, program, h5_file,
                   load_calls, model_sets, wire>>

\* create_ml_api.py answers one GET /health
FlaskHealth ==
    /\ program = "flask" /\ flask_state = "serving"
    /\ out' = health_check(flask_model)
    /\ op' = "health_check"
    /\ inp' = NoneVal
    /\ UNCHANGED <<vercel_model, flask_model, flask_state, program, h5_file,
                   load_calls, model_sets, wire>>

\* the model file appears, disappears or is replaced on disk
FsChange ==
    /\ program \in {"vercel", "flask"} /\ op # "call"
    /\ h5_file' \in {"absent", "valid", "corrupt"} \ {h5_file}
    /\ op' = "fs_change"
    /\ inp' = NoneVal
    /\ out' = Pending
    /\ UNCHANGED <<vercel_model, flask_model, flask_state, program,
                   load_calls, model_sets, wire>>

Next ==
    \/ Simulate
    \/ Score
    \/ GetCropAdjustment
    \/ TestImage
    \/ ParseFilename
    \/ ConvertMain
    \/ TestAllImagesBegin
    \/ TestAllImagesFile
    \/ TestAllImagesEnd
    \/ Preprocess
    \/ GetRecommendations
    \/ VercelPost
    \/ FlaskMain
    \/ FlaskServe
    \/ FlaskPredict
    \/ VercelHealth
    \/ FlaskHealth
    \/ FsChange

Spec == Init /\ [][Next]_vars

---------------------------------------------------------------------------
(* Properties.                                                             *)

\* a handler answered 200 with a prediction
Answered == op \in {"do_POST", "predict"} /\ out.status = 200

\* simulate_web_model_prediction was called with a feature vector
Scored == op = "simulate_web_model_prediction" /\ out.features # NoneVal

\* the loop body of test_all_images scored a file
Tested == op = "test_all_images" /\ ~out.skipped

\* C1: in both handlers and in the heuristic path the verdict is Healthy
\* exactly when the probability is strictly above 0.5, so that a probability
\* of exactly 0.5 is Affected.
C1_StrictThreshold ==
    /\ Answered =>
          /\ out.body.model_info.raw_prediction_value = inp.infer.p
          /\ out.body.is_healthy = (inp.infer.p > 500)
          /\ (inp.infer.p = 500 => ~out.body.is_healthy)
    /\ Tested =>
          /\ out.sim_healthy = (out.result.simulation_prediction > 500)
          /\ (out.result.simulation_prediction = 500 => ~out.sim_healthy)

C1_Witness ==
    /\ op = "do_POST" /\ out.status = 200
    /\ inp.infer.p = 500
    /\ out.body.is_healthy = FALSE

\* C2: for every feature vector, crop label and jitter draw the scorer
\* returns a value in [0.001, 0.999], also when the score before the clamp
\* lies outside that interval.
C2_ScoreInRange ==
    /\ Scored => out.result >= 1 /\ out.result <= 999
    /\ Tested => /\ out.result.simulation_prediction >= 1
                 /\ out.result.simulation_prediction <= 999

\* base 0.95 + 0.05 + corn 0.03 leaves the interval and is clamped to 0.999
C2_Witness ==
    /\ Scored
    /\ out.locals.base = 950
    /\ out.locals.adjusted = 1030
    /\ out.locals.health_score > 999
    /\ out.result = 999

C3_Strong ==
    /\ out.features.brightness > 600
    /\ out.features.green_dominance > 350
    /\ out.features.texture_complexity > 20

C3_Moderate ==
    out.features.brightness > 400 /\ out.features.green_dominance > 300

C3_Affected ==
    out.features.brightness < 300 \/ out.features.green_dominance < 250

\* C3: the base is 0.95 when the strong condition holds, else 0.75 when the
\* moderate one holds, else 0.15 when the affected one holds, else 0.45;
\* one base is chosen for every feature vector, and a vector meeting the
\* strong condition never gets 0.75 although it meets the moderate one too.
C3_FirstMatchBase ==
    Scored =>
        /\ out.locals.base \in {950, 750, 150, 450}
        /\ (C3_Strong => out.locals.base = 950 /\ C3_Moderate)
        /\ (~C3_Strong /\ C3_Moderate => out.locals.base = 750)
        /\ (~C3_Strong /\ ~C3_Moderate /\ C3_Affected => out.locals.base = 150)
        /\ (~C3_Strong /\ ~C3_Moderate /\ ~C3_Affected => out.locals.base = 450)

C3_Witness ==
    Scored /\ C3_Strong /\ C3_Moderate /\ out.locals.base = 950

C4_ContrastTerm ==
    IF out.features.contrast > 200 /\ out.features.contrast < 400 THEN 50 ELSE 0

C4_BalanceTerm == IF out.features.color_balance > 300 THEN 0 - 100 ELSE 0

\* a tenth of the bias of the bias table, by label
C4_CropTerm ==
    LET l == inp.crop_type
    IN  IF l \in {lbl_Palak, lbl_arai_keerai, lbl_siru_tomato} THEN 10
        ELSE IF l \in {lbl_TOMATO, lbl_tomato} THEN 0 - 50
        ELSE IF l \in {lbl_bell_pepper, lbl_pepper_strawberry} THEN 0 - 30
        ELSE IF l = lbl_strawberry THEN 0 - 80
        ELSE IF l = lbl_sweet_corn THEN 30
        ELSE 0

\* C4: before jitter and clamp the score is the base plus 0.05 iff
\* 0.2 < contrast < 0.4, minus 0.1 iff colorBalance > 0.3, plus a tenth of
\* the crop bias, each term applied whatever the others and the base are.
C4_ScoreIsSumOfTerms ==
    Scored =>
        /\ out.locals.adjusted =
              out.locals.base + C4_ContrastTerm + C4_BalanceTerm + C4_CropTerm
        /\ out.locals.health_score = out.locals.adjusted + inp.noise

\* both secondary adjustments and a crop bias applied to one score
C4_Witness ==
    /\ Scored
    /\ C4_ContrastTerm = 50 /\ C4_BalanceTerm = 0 - 100 /\ C4_CropTerm = 0 - 50
    /\ out.locals.adjusted = out.locals.base - 100

\* whether the case-folded label holds a keyword of group i of the table
C5_Group(i, l) ==
    LET crop == lower(l)
    IN  CASE i = 1 -> Contains(kw_palak, crop) \/ Contains(kw_keerai, crop)
                          \/ Contains(kw_spinach, crop)
          [] i = 2 -> Contains(kw_arai, crop) \/ Contains(kw_siru, crop)
          [] i = 3 -> Contains(kw_tomato, crop)
          [] i = 4 -> Contains(kw_pepper, crop)
          [] i = 5 -> Contains(kw_strawberry, crop)
          [] i = 6 -> Contains(kw_corn, crop) \/ Contains(kw_maize, crop)

C5_Bias == <<100, 100, 0 - 500, 0 - 300, 0 - 800, 300>>

\* C5: the bias is that of the first group, in table order, of which the
\* case-folded label holds a keyword, 0.0 for an unmatched, empty or None
\* label, and always one of 0.1, -0.5, -0.3, -0.8, 0.3, 0.0.
C5_BiasTable ==
    op = "get_crop_adjustment" =>
        LET l == inp.crop_type
        IN  /\ out.result \in {100, 0 - 500, 0 - 300, 0 - 800, 300, 0}
            /\ (l \in {NoneStr, <<>>} => out.result = 0)
            /\ l \notin {NoneStr, <<>>} =>
                  /\ \A i \in 1..6 :
                        C5_Group(i, l) /\ (\A j \in 1..(i - 1) : ~C5_Group(j, l))
                            => out.result = C5_Bias[i]
                  /\ ((\A i \in 1..6 : ~C5_Group(i, l)) => out.result = 0)

\* an upper-case label is matched after the case fold
C5_Witness ==
    /\ op = "get_crop_adjustment"
    /\ inp.crop_type = lbl_TOMATO
    /\ out.result = 0 - 500

\* the groups of the table of which the label holds a keyword
C6_Groups(l) == {i \in 1..6 : C5_Group(i, l)}

\* C6: for a label holding keywords of more than one group the branch taken
\* is that of the earliest such group; "arai keerai" leaves by the
\* palak|keerai|spinach branch, not by the arai|siru branch.
C6_EarliestGroupWins ==
    op = "get_crop_adjustment" /\ inp.crop_type # NoneStr
        /\ Cardinality(C6_Groups(inp.crop_type)) > 1 =>
            /\ out.branch \in C6_Groups(inp.crop_type)
            /\ \A i \in C6_Groups(inp.crop_type) : out.branch <= i
            /\ out.result = C5_Bias[out.branch]
            /\ (inp.crop_type = lbl_arai_keerai => out.branch = 1)

C6_Witness ==
    /\ op = "get_crop_adjustment"
    /\ inp.crop_type = lbl_arai_keerai
    /\ C6_Groups(inp.crop_type) = {1, 2}
    /\ out.branch = 1

\* the probability of the class the verdict names
C7_Winning == IF out.body.is_healthy THEN inp.infer.p ELSE Unit - inp.infer.p

\* round(): to the nearest integer, a tie to the even one
C7_Round(num, den) ==
    LET q == num \div den
        r == num % den
    IN  IF 2 * r > den \/ (2 * r = den /\ q % 2 = 1) THEN q + 1 ELSE q

\* C7 as stated: the confidence is the winning-class probability in percent
\* rounded to the nearest integer.
C7_RoundedConfidence ==
    Answered => out.body.confidence = C7_Round(C7_Winning * 100, Unit)

\* C7 as amended: the confidence is the winning-class probability in percent
\* with its fraction cut off (int()), never rounded up.
C7_TruncatedConfidence ==
    Answered =>
        /\ out.body.confidence * Unit <= C7_Winning * 100
        /\ C7_Winning * 100 < (out.body.confidence + 1) * Unit

\* 0.996 is reported as 99, where rounding gives 100
C7_Witness ==
    Answered /\ inp.infer.p = 996 /\ out.body.confidence = 99

\* C8: for a probability in [0,1] the confidence of a successful response is
\* an integer in [0,100], and never below 50.
C8_ConfidenceRange ==
    Answered /\ inp.infer.p >= 0 /\ inp.infer.p <= Unit =>
        /\ out.body.confidence \in 0..100
        /\ out.body.confidence >= 50

\* an Affected verdict on 0.004 is reported with confidence 99
C8_Witness ==
    /\ op = "predict" /\ out.status = 200
    /\ inp.infer.p = 4
    /\ ~out.body.is_healthy
    /\ out.body.confidence = 99

ResponseFields ==
    {"prediction", "confidence", "is_healthy", "recommendations", "model_info"}

TestResultFields ==
    {"filename", "crop_type", "expected_healthy", "features",
     "simulation_prediction", "simulation_correct", "h5_prediction", "h5_correct"}

\* C9 as stated: the handlers and the heuristic path give results of one
\* shape and apply one threshold.
C9_IdenticalShape ==
    /\ Answered => DOMAIN out.body = ResponseFields
    /\ Tested => DOMAIN out.result = ResponseFields

\* C9 as amended: the two handlers give results of one shape, the heuristic
\* path of test_all_images gives a record of other fields, and all three
\* apply the threshold 0.5 the handlers report as model_threshold.
C9_SameThresholdOtherShape ==
    /\ Answered =>
          /\ DOMAIN out.body = ResponseFields
          /\ out.body.is_healthy =
                (out.body.model_info.raw_prediction_value
                    > out.body.model_info.model_threshold)
    /\ Tested =>
          /\ DOMAIN out.result = TestResultFields
          /\ out.sim_healthy = (out.result.simulation_prediction > model_threshold)

\* the heuristic path scores a file at exactly 0.5 and records no verdict
\* field
C9_Witness ==
    /\ Tested
    /\ out.result.simulation_prediction = 500
    /\ ~out.sim_healthy
    /\ "is_healthy" \notin DOMAIN out.result

\* a request whose 'image' cannot be decoded, answered by a handler that has
\* a model to predict with
C10_Undecodable ==
    /\ \/ op = "do_POST" /\ vercel_model = "loaded"
       \/ op = "predict" /\ flask_model = "loaded"
    /\ inp.request.json = "object"
    /\ inp.request.has_image
    /\ ~Decodable(inp.request.image)

\* C10: an undecodable image ends in a 4xx response in every handler, and
\* no prediction is made.
C10_UndecodableIs4xx ==
    C10_Undecodable =>
        /\ out.status >= 400 /\ out.status <= 499
        /\ "prediction" \notin DOMAIN out.body

\* a handler answered a request that found no usable model, or whose
\* model.predict raised
C11_NoUsableModel ==
    \/ op = "predict" /\ flask_model = "None"
    \/ op = "do_POST" /\ vercel_model = "None"
    \/ op \in {"do_POST", "predict"} /\ inp.infer # NoneVal /\ inp.infer.raised

\* C11: when the model is absent, fails to load or raises during predict,
\* the request ends with an error response (4xx or 5xx, an `error` field)
\* that holds no prediction: no handler falls back to another scorer.
C11_NoSilentFallback ==
    C11_NoUsableModel =>
        /\ out.status \in {400, 500}
        /\ "error" \in DOMAIN out.body
        /\ "prediction" \notin DOMAIN out.body

C11_Witness ==
    /\ op = "do_POST" /\ vercel_model = "None" /\ h5_file = "corrupt"
    /\ inp.request.json = "object" /\ inp.request.has_image
    /\ out.status = 500 /\ out.body.error = "Failed to load model"

C13_ConsistentResponse ==
    Answered =>
        LET b == out.body
            req == inp.request
        IN  /\ b.is_healthy => b.prediction = "Healthy Plant"
            /\ ~b.is_healthy => b.prediction = "Affected Plant (Pest/Disease detected)"
            /\ b.model_info.interpretation.relation = ">" <=> b.is_healthy
            /\ b.model_info.interpretation.relation \in {">", "<="}
            /\ b.model_info.model_threshold = 500
            /\ b.model_info.raw_prediction_value = inp.infer.p
            /\ b.is_healthy <=> b.model_info.raw_prediction_value > b.model_info.model_threshold
            /\ b.model_info.crop_type =
                   IF req.has_crop THEN req.cropType ELSE lbl_Unknown_Crop

C13_Witness ==
    /\ Answered /\ ~inp.request.has_crop
    /\ out.body.model_info.crop_type = lbl_Unknown_Crop
    /\ out.body.model_info.raw_prediction_value = 500
    /\ ~out.body.is_healthy
    /\ out.body.model_info.interpretation.relation = "<="

\* the scorer was called on the uniform image of RGB (50,150,50) with the
\* label "tomato"
C14_MidGreenTomato ==
    /\ Scored
    /\ inp.content = UniformFile(col_green)
    /\ inp.crop_type = lbl_tomato

\* C14 as stated: scenario A selects the moderate tier (base 0.75), applies
\* the tomato bias -0.05 and ends, before the jitter, in (0.65, 0.75), which
\* is Healthy.
C14_ScenarioA_Tier2 ==
    C14_MidGreenTomato =>
        /\ out.locals.base = 750
        /\ out.locals.adjusted - out.locals.tuned = 0 - 50
        /\ 650 < out.locals.adjusted /\ out.locals.adjusted < 750
        /\ sim_is_healthy(out.locals.adjusted)

\* C14: scenario A has brightness 0.327, which is not above 0.4, so the
\* scorer selects the borderline tier (base 0.45); no secondary term
\* applies; the tomato adjustment is -0.05; the probability before the
\* jitter is 0.40, which is Affected.
C14_ScenarioA_Borderline ==
    C14_MidGreenTomato =>
        /\ out.features.brightness \in 326..327
        /\ out.features.green_dominance \in 598..600
        /\ out.locals.base = 450
        /\ out.locals.tuned = out.locals.base
        /\ out.locals.adjusted - out.locals.tuned = 0 - 50
        /\ out.locals.adjusted = 400
        /\ ~sim_is_healthy(out.locals.adjusted)
        /\ inp.noise = 0 => out.result = 400

C14_Witness ==
    C14_MidGreenTomato /\ inp.noise = 0 /\ out.result = 400

\* the scorer was called on an image whose brightness is below 0.3
C15_DarkImage == Scored /\ out.features.brightness < 300

\* C15: an image whose brightness is below 0.3 gets base 0.15 whatever its
\* other features and is Affected; with no crop bias, no secondary
\* adjustment and no jitter the probability is 0.15, for which the decision
\* rule of the handlers gives confidence 85.
C15_ScenarioB ==
    C15_DarkImage =>
        /\ out.locals.base = 150
        /\ ~sim_is_healthy(out.locals.adjusted)
        /\ ~sim_is_healthy(out.result)
        /\ (/\ get_crop_adjustment(inp.crop_type) = 0
            /\ out.locals.tuned = out.locals.base
            /\ inp.noise = 0)
           => /\ out.result = 150
              /\ ~vercel_decide(out.result).is_healthy
              /\ vercel_decide(out.result).confidence = 85
              /\ flask_decide(out.result).confidence = 85

C15_Witness ==
    /\ C15_DarkImage
    /\ inp.content = UniformFile(col_dark)
    /\ out.features.green_dominance >= 250
    /\ inp.crop_type = NoneStr /\ inp.noise = 0
    /\ out.result = 150

\* a recommendation text was produced: by a direct call, or inside a
\* successful response
Recommended == op = "get_crop_recommendations" \/ Answered

RecIsHealthy == IF Answered THEN out.body.is_healthy ELSE inp.is_healthy

RecLabel == IF Answered THEN out.body.model_info.crop_type ELSE inp.crop_type

RecParts == IF Answered THEN out.body.recommendations.parts ELSE out.parts

InParts(segment, parts) == \E i \in 1..Len(parts) : parts[i] = segment

\* the label contains the keyword, case-insensitively
Mentions(keyword, label) == Truthy(label) /\ Contains(keyword, lower(label))

MentionsLeafy(label) ==
    Mentions(kw_palak, label) \/ Mentions(kw_keerai, label)
        \/ Mentions(kw_spinach, label)

\* C16: the text for an affected plant whose label contains palak, keerai
\* or spinach in any case contains "aphids and leaf miners", and the text
\* for a healthy plant whose label contains tomato and none of the three
\* contains "early blight".
C16_FamilyPhrases ==
    Recommended =>
        /\ (~RecIsHealthy /\ MentionsLeafy(RecLabel)) =>
               InParts("3) Check for aphids and leaf miners (common in leafy greens), 4) Ensure proper air circulation to prevent downy mildew", RecParts)
        /\ (RecIsHealthy /\ Mentions(kw_tomato, RecLabel) /\ ~MentionsLeafy(RecLabel)) =>
               InParts("Monitor for early blight and ensure good air circulation", RecParts)

C16_Witness ==
    /\ op = "get_crop_recommendations" /\ program = "vercel"
    /\ ~inp.is_healthy /\ inp.crop_type = lbl_Spinach
    /\ out.parts[3] = "3) Check for aphids and leaf miners (common in leafy greens), 4) Ensure proper air circulation to prevent downy mildew"

\* the family of a label: the first that matches in the order leafy,
\* tomato, strawberry, pepper; otherwise (also for None and '') generic
C17_Family(label) ==
    IF MentionsLeafy(label) THEN "leafy"
    ELSE IF Mentions(kw_tomato, label) THEN "tomato"
    ELSE IF Mentions(kw_strawberry, label) THEN "strawberry"
    ELSE IF Mentions(kw_pepper, label) THEN "pepper"
    ELSE "generic"

C17_HealthySentence(family) ==
    CASE family = "leafy" -> "Leafy greens benefit from regular harvesting"
      [] family = "tomato" -> "Monitor for early blight and ensure good air circulation"
      [] family = "strawberry" -> "Watch for powdery mildew and ensure good drainage"
      [] family = "pepper" -> "Maintain consistent moisture and watch for bacterial spot"

C17_Steps34(family) ==
    CASE family = "leafy" -> "3) Check for aphids and leaf miners (common in leafy greens), 4) Ensure proper air circulation to prevent downy mildew"
      [] family = "tomato" -> "3) Check for whiteflies, aphids, and early blight, 4) Remove affected leaves immediately"
      [] family = "strawberry" -> "3) Look for spider mites and powdery mildew, 4) Improve air circulation and reduce humidity"
      [] family = "pepper" -> "3) Check for thrips and bacterial spot, 4) Ensure good drainage and avoid overhead watering"
      [] OTHER -> "3) Check root system for rot or discoloration, 4) Adjust nutrient solution pH and concentration"

\* C17: the text depends on (isHealthy, cropLabel) only and is built from
\* exactly one family, the first that matches in the order leafy, tomato,
\* strawberry, pepper, else generic: the healthy text is the opening, the
\* family's sentence if any, and the monitoring suffix at the end; the
\* affected text is the opening, steps 1-2, the family's or the generic
\* steps 3-4, and steps 5-6 at the end; None and '' give the generic text.
C17_OneFamilyFramedText ==
    Recommended =>
        LET family == C17_Family(RecLabel)
            parts == RecParts
        IN  /\ ~Truthy(RecLabel) => family = "generic"
            /\ RecIsHealthy =>
                  /\ parts[1] = "appears healthy! Continue with current care routine."
                  /\ parts[Len(parts)] = "Monitor regularly for any changes in leaf color or texture. Check for pests weekly as prevention."
                  /\ IF family = "generic" THEN Len(parts) = 2
                     ELSE Len(parts) = 3 /\ parts[2] = C17_HealthySentence(family)
            /\ ~RecIsHealthy =>
                  /\ Len(parts) = 4
                  /\ parts[1] = "shows signs of pest or disease. Immediate actions:"
                  /\ parts[2] = "1) Isolate the plant to prevent spread, 2) Carefully inspect leaves and stems for pests"
                  /\ parts[3] = C17_Steps34(family)
                  /\ parts[4] = "5) Consider applying organic treatment like neem oil, 6) Monitor closely for 48-72 hours and adjust care as needed."

C17_Witness ==
    /\ op = "get_crop_recommendations" /\ program = "vercel"
    /\ ~inp.is_healthy /\ inp.crop_type = lbl_pepper_strawberry
    /\ out.parts[3] = "3) Look for spider mites and powdery mildew, 4) Improve air circulation and reduce humidity"
    /\ Len(out.parts) = 4

\* a None label gave the generic healthy text
C17_NoneLabel ==
    /\ op = "get_crop_recommendations" /\ inp.crop_type = NoneStr
    /\ inp.is_healthy /\ Len(out.parts) = 2 /\ out.subject = kw_plant

\* the normalizer of a program was called on bytes that decode
C18_Decoded == op = "preprocess_image" /\ inp.content # NoneVal

\* C18: for every image that decodes, whatever its size and mode, the
\* normalizer returns one batch of ImgSide x ImgSide pixels (224 x 224 in
\* the program) of 3 channels, every value an integer intensity 0..255
\* divided by 255 and therefore in [0,1].
C18_NormalizedTensor ==
    C18_Decoded =>
        /\ out.img_array # NoneVal
        /\ Len(out.img_array.batch) = 1
        /\ LET img == out.img_array.batch[1]
           IN  /\ Len(img) = ImgSide
               /\ \A y \in 1..Len(img) :
                     /\ Len(img[y]) = ImgSide
                     /\ \A x \in 1..Len(img[y]) :
                           /\ Len(img[y][x]) = 3
                           /\ \A c \in 1..3 :
                                 /\ img[y][x][c] \in 0..Unit
                                 /\ \E v \in 0..MaxPixel :
                                       img[y][x][c] = (v * Unit) \div MaxPixel

C18_Witness ==
    /\ C18_Decoded /\ program = "vercel"
    /\ inp.content.mode = "RGBA" /\ Len(inp.content.px) = 4
    /\ out.img_array # NoneVal
    /\ out.img_array.batch[1][1][1] = <<Unit, 0, 0>>

\* C19: for every normalized tensor the channel means lie in [0,1], the
\* denominator r_mean + g_mean + b_mean + 0.001 is at least 0.001, and
\* green_dominance = g_mean / denominator lies in [0,1]; for an all-black
\* image it is 0.
C19_GreenDominanceInRange ==
    Scored =>
        LET f == out.features
            denominator == total_color_of(f.r_mean, f.g_mean, f.b_mean)
        IN  /\ {f.r_mean, f.g_mean, f.b_mean} \subseteq 0..Unit
            /\ denominator >= 1
            /\ f.green_dominance \in 0..Unit
            /\ denominator * f.green_dominance <= f.g_mean * Unit
            /\ f.g_mean * Unit < denominator * (f.green_dominance + 1)
            /\ inp.content = UniformFile(col_black) => f.green_dominance = 0

C19_Witness ==
    /\ Scored /\ inp.content = UniformFile(col_black)
    /\ out.features.r_mean + out.features.g_mean + out.features.b_mean = 0
    /\ out.features.green_dominance = 0

\* a well-formed prediction request, and an inference that succeeds
C20_Request ==
    [json |-> "object", has_image |-> TRUE, image |-> AsPayload(a_picture),
     has_crop |-> FALSE]

C20_Inference == [raised |-> FALSE, p |-> 750]

\* the response reports that there is no usable model
C20_ModelError(response) ==
    /\ response.status = 500
    /\ response.body.error \in
          {"Model not loaded", "Failed to load model",
           "Model file new_plant_health_classifier.h5 not found"}

\* C20: whenever a health endpoint reports the model as available
\* (model_loaded, model_available), a well-formed prediction request in the
\* same process and file-system state does not fail for lack of a usable
\* model, and whenever it reports false such a request fails with a model
\* error.
C20_HealthTellsAvailability ==
    /\ op = "health_check" =>
          (out.body.model_loaded <=>
              ~C20_ModelError(predict(C20_Request, C20_Inference, flask_model).response))
    /\ op = "do_GET" =>
          (out.body.model_available <=>
              ~C20_ModelError(do_POST(C20_Request, C20_Inference, vercel_model,
                                      h5_file).response))

\* the message holds the text of the underlying exception
C21_Holds(cause, message) ==
    message = cause \/ message = preprocessing_failed(cause)

\* C21: every error reaches the caller with the underlying message and a
\* machine-checkable kind: the response to an undecodable image holds the
\* text of the decode exception, the response to a failed inference the
\* text of the inference exception, each with a 4xx or 5xx status; no
\* handler replaces the message with a generic one.
C21_ErrorsCarryCause ==
    /\ C10_Undecodable =>
          /\ out.status \in {400, 500}
          /\ \/ C21_Holds(decode_error(inp.request.image), out.body.error)
             \/ /\ "message" \in DOMAIN out.body
                /\ C21_Holds(decode_error(inp.request.image), out.body.message)
    /\ (op \in {"do_POST", "predict"} /\ inp.infer # NoneVal /\ inp.infer.raised) =>
          /\ out.status = 500
          /\ \/ out.body.error = "inference failed"
             \/ "message" \in DOMAIN out.body /\ out.body.message = "inference failed"

\* the status lines and the bodies that the POST handled last wrote
C22_StatusLines == {i \in 1..Len(wire) : wire[i].kind = "status"}

C22_Bodies == {i \in 1..Len(wire) : wire[i].kind = "body"}

\* C22: for each POST handled by api/predict.py exactly one status line
\* and one JSON body are written, whichever step fails: a failure after the
\* 200 status and the headers were sent does not make the except branch
\* emit a second, 500 response.
C22_OneResponsePerPost ==
    op = "do_POST" =>
        /\ Cardinality(C22_StatusLines) = 1
        /\ Cardinality(C22_Bodies) = 1

\* C23: in create_ml_api.predict the model test comes first, so that with
\* no model every request, also one without 'image', is answered 500
\* 'Model not loaded'; in api/predict.py the 'image' test comes before
\* load_model, so that a request without 'image' is answered 400 whatever
\* the model file is, and executes no load.
C23_ValidationOrder ==
    [][ /\ (op' = "predict" /\ flask_model' = "None") =>
              /\ out'.status = 500
              /\ out'.body.error = "Model not loaded"
        /\ (op' = "do_POST" /\ inp'.request.json = "object"
                /\ ~inp'.request.has_image) =>
              /\ out'.status = 400
              /\ out'.body.error = "No image data provided"
              /\ load_calls' = load_calls
              /\ model_sets' = model_sets
              /\ vercel_model' = vercel_model ]_vars

C23_Witness ==
    /\ op = "do_POST" /\ inp.request.json = "object" /\ ~inp.request.has_image
    /\ h5_file = "absent" /\ vercel_model = "None" /\ load_calls = 0
    /\ out.status = 400

\* create_ml_api.predict answered a request without 'image' by 500 for
\* lack of a model
C23_FlaskModelFirst ==
    /\ op = "predict" /\ flask_model = "None"
    /\ inp.request.json = "object" /\ ~inp.request.has_image
    /\ out.status = 500 /\ out.body.error = "Model not loaded"

\* C24: in api/predict.py a load that fails (no file at any of the four
\* paths, or a load error) leaves the global None, so that the next request
\* with an image attempts the load again and succeeds once a loadable file
\* is there; after one successful load every later request uses the cached
\* handle, whatever the file system holds.
C24_RetryThenCache ==
    [][ (op' = "do_POST" /\ inp'.request.json = "object" /\ inp'.request.has_image) =>
          IF vercel_model = "None"
          THEN /\ h5_file = "absent" =>
                     /\ vercel_model' = "None" /\ load_calls' = load_calls
                     /\ out'.status = 500
                     /\ out'.body.error = "Model file new_plant_health_classifier.h5 not found"
               /\ h5_file = "corrupt" =>
                     /\ vercel_model' = "None" /\ load_calls' = load_calls + 1
                     /\ out'.status = 500
                     /\ out'.body.error = "Failed to load model"
               /\ h5_file = "valid" =>
                     /\ vercel_model' = "loaded" /\ load_calls' = load_calls + 1
                     /\ model_sets' = model_sets + 1
                     /\ ~C20_ModelError(out')
          ELSE /\ vercel_model' = vercel_model
               /\ load_calls' = load_calls /\ model_sets' = model_sets
               /\ ~C20_ModelError(out') ]_vars

\* a load failed, a later one succeeded, and a request was then answered
\* from the cached handle with no model file on disk
C24_Witness ==
    /\ op = "do_POST" /\ h5_file = "absent" /\ vercel_model = "loaded"
    /\ load_calls = 2 /\ model_sets = 1
    /\ out.status = 200

\* the scorer returned a score, for the features of a file or for a
\* feature dict
C25_Scored == Scored \/ op = "score"

\* C25: before the jitter, base 0.95 and base 0.75 give a score above 0.5
\* and base 0.15 a score below 0.5, for every crop bias and every
\* combination of the secondary adjustments; the verdict can differ from
\* that of the base for the borderline base 0.45 only.
C25_VerdictFixedByTier ==
    C25_Scored =>
        /\ out.locals.base \in {950, 750, 450, 150}
        /\ out.locals.base \in {950, 750} => out.locals.adjusted > 500
        /\ out.locals.base = 150 => out.locals.adjusted < 500
        /\ (sim_is_healthy(out.locals.adjusted) # sim_is_healthy(out.locals.base))
              => out.locals.base = 450

\* the moderate base with the largest deductions: 0.75 - 0.1 - 0.08
C25_Witness ==
    /\ op = "score" /\ out.locals.base = 750
    /\ out.features.color_balance > 300
    /\ inp.crop_type = lbl_strawberry
    /\ out.locals.adjusted = 570

\* the borderline base moved across the threshold: 0.45 + 0.05 + 0.03
C25_BorderlineCrosses ==
    /\ op = "score" /\ out.locals.base = 450
    /\ out.locals.adjusted = 530 /\ sim_is_healthy(out.result)

\* the family the bias table picked, by the return statement it left by
C26_BiasFamily ==
    CASE out.branch = 1 -> "leafy"
      [] out.branch = 2 -> "arai_siru"
      [] out.branch = 3 -> "tomato"
      [] out.branch = 4 -> "pepper"
      [] out.branch = 5 -> "strawberry"
      [] out.branch = 6 -> "corn"
      [] OTHER -> "generic"

\* the family the recommendation generator picks for the same label
C26_RecFamily ==
    get_crop_recommendations_branch(
        IF Truthy(inp.crop_type) THEN lower(inp.crop_type) ELSE kw_plant)

C26_MentionsAraiSiru ==
    Mentions(kw_arai, inp.crop_type) \/ Mentions(kw_siru, inp.crop_type)

C26_MentionsCorn ==
    Mentions(kw_corn, inp.crop_type) \/ Mentions(kw_maize, inp.crop_type)

\* the label holds a keyword of the recommendation generator
C26_MentionsRecFamily ==
    \/ MentionsLeafy(inp.crop_type)
    \/ Mentions(kw_tomato, inp.crop_type)
    \/ Mentions(kw_pepper, inp.crop_type)
    \/ Mentions(kw_strawberry, inp.crop_type)

\* a label that matches arai, siru, corn or maize only has a non-zero bias
\* and the generic recommendation
C26_BiasOnly ==
    ((C26_MentionsAraiSiru \/ C26_MentionsCorn) /\ ~C26_MentionsRecFamily) =>
        /\ out.result # 0
        /\ C26_RecFamily = "generic"

\* C26 as stated: for every label that matches palak|keerai|spinach,
\* tomato, pepper or strawberry both components pick the same family,
\* except that pepper with strawberry is pepper for the bias table and
\* strawberry for the recommendation generator.
C26_SameFamilyButPepperStrawberry ==
    op = "get_crop_adjustment" =>
        /\ C26_BiasOnly
        /\ C26_MentionsRecFamily =>
              IF Mentions(kw_pepper, inp.crop_type)
                    /\ Mentions(kw_strawberry, inp.crop_type)
              THEN C26_BiasFamily = "pepper" /\ C26_RecFamily = "strawberry"
              ELSE C26_BiasFamily = C26_RecFamily

\* C26: each component follows its own order.  A label that matches arai or
\* siru (and none of palak|keerai|spinach) next to tomato, pepper or
\* strawberry gets the arai/siru bias +0.1 and the tomato, strawberry or
\* pepper text; without arai and siru the two families agree, except that
\* pepper with strawberry (and no leafy or tomato keyword) is pepper for
\* the bias table and strawberry for the recommendation generator.
C26_FamiliesByOwnOrder ==
    op = "get_crop_adjustment" =>
        /\ C26_BiasOnly
        /\ C26_MentionsRecFamily =>
              IF MentionsLeafy(inp.crop_type)
              THEN C26_BiasFamily = "leafy" /\ C26_RecFamily = "leafy"
              ELSE IF C26_MentionsAraiSiru
              THEN /\ C26_BiasFamily = "arai_siru" /\ out.result = 100
                   /\ C26_RecFamily \in {"tomato", "strawberry", "pepper"}
              ELSE IF Mentions(kw_tomato, inp.crop_type)
              THEN C26_BiasFamily = "tomato" /\ C26_RecFamily = "tomato"
              ELSE IF Mentions(kw_pepper, inp.crop_type)
                         /\ Mentions(kw_strawberry, inp.crop_type)
              THEN C26_BiasFamily = "pepper" /\ C26_RecFamily = "strawberry"
              ELSE C26_BiasFamily = C26_RecFamily

C26_Witness ==
    /\ op = "get_crop_adjustment" /\ inp.crop_type = lbl_siru_tomato
    /\ C26_BiasFamily = "arai_siru" /\ out.result = 100
    /\ C26_RecFamily = "tomato"

\* pepper with strawberry: pepper bias, strawberry text
C26_PepperStrawberry ==
    /\ op = "get_crop_adjustment" /\ inp.crop_type = lbl_pepper_strawberry
    /\ C26_BiasFamily = "pepper" /\ C26_RecFamily = "strawberry"

\* arai alone: a bias and the generic text
C26_AraiAlone ==
    /\ op = "get_crop_adjustment" /\ inp.crop_type = lbl_Arai
    /\ out.result = 100 /\ C26_RecFamily = "generic"

---------------------------------------------------------------------------
(* C27: the counters of test_all_images.                                   *)

C27_InLoop == program = "test_script" /\ op = "test_all_images_loop"

C27_Returned ==
    program = "test_script" /\ op = "test_all_images_return" /\ inp.folder.exists

\* the files of image_files[1..i] that load_and_preprocess_image could load
C27_Loaded(image_files, i) ==
    SelectSeq(SubSeq(image_files, 1, i),
              LAMBDA f : load_and_preprocess_image(inp.folder.files[f]) # NoneVal)

C27_Counters(acc, image_files, i) ==
    /\ acc.correct_predictions <= acc.total_predictions
    /\ acc.total_predictions = Len(acc.results)
    /\ acc.correct_predictions =
          Cardinality({k \in DOMAIN acc.results : acc.results[k].simulation_correct})
    \* results holds the loaded files, in order, and no other
    /\ [k \in DOMAIN acc.results |-> acc.results[k].filename]
          = C27_Loaded(image_files, i)
    \* the scorer never saw features = None, so it never returned 0.0
    /\ \A k \in DOMAIN acc.results :
          /\ acc.results[k].features # NoneVal
          /\ acc.results[k].simulation_prediction > 0

\* C27: after any number of files, correct_predictions <= total_predictions
\* = len(results); a file that fails to load is in neither counter nor in
\* results, and no result was scored on features = None; at the end the
\* per-crop totals add up to total_predictions and the accuracy is 0 when
\* no image was processed (no division by zero).
C27_CountersAgree ==
    /\ C27_InLoop => C27_Counters(out, out.image_files, out.i)
    /\ C27_Returned =>
          /\ C27_Counters(out, image_files_of(inp.folder.files),
                          Len(image_files_of(inp.folder.files)))
          /\ SumFn([crop \in DOMAIN out.crop_results |-> out.crop_results[crop].total],
                   DOMAIN out.crop_results) = out.total_predictions
          /\ SumFn([crop \in DOMAIN out.crop_results |-> out.crop_results[crop].correct],
                   DOMAIN out.crop_results) = out.correct_predictions
          /\ out.total_predictions = 0 => out.accuracy = 0
          /\ out.total_predictions > 0 =>
                out.accuracy = (out.correct_predictions * 100 * Unit)
                                  \div out.total_predictions
          /\ out.returned = out.results

\* three image files, one of them unreadable: two results, one of them right
C27_Witness ==
    /\ C27_Returned
    /\ Len(image_files_of(inp.folder.files)) = 3
    /\ inp.folder.files[file_arai_healthy] = NoneVal
    /\ out.total_predictions = 2
    /\ out.correct_predictions = 1
    /\ Cardinality(DOMAIN out.crop_results) = 2
    /\ out.accuracy = 50 * Unit

\* a folder whose only image cannot be loaded: nothing processed, accuracy 0
C27_NothingProcessed ==
    /\ C27_Returned
    /\ Len(image_files_of(inp.folder.files)) = 1
    /\ out.total_predictions = 0
    /\ out.results = <<>>
    /\ out.accuracy = 0

---------------------------------------------------------------------------
(* C28: parse_filename.                                                    *)

C28_Parsed == program = "test_script" /\ op = "parse_filename"

\* the word occurs in the name, whatever the case of the name's letters
C28_Has(word, name) ==
    \E i \in 0..(Len(name) - Len(word)) :
        \A j \in 1..Len(word) : LowerChar(name[i + j]) = word[j]

\* C28: parse_filename ignores case; the crop is 'arai keerai' if the name
\* contains 'arai', else 'palak' if it contains 'palak', else 'siru keerai'
\* if it contains 'siru', else 'unknown'; the expected verdict is Affected
\* for every name containing 'unhealthy', Healthy for every other name.
C28_PriorityAndVerdict ==
    C28_Parsed =>
        /\ out.crop_type =
              CASE C28_Has(kw_arai, inp.filename) -> lbl_arai_keerai
                [] ~C28_Has(kw_arai, inp.filename) /\ C28_Has(kw_palak, inp.filename)
                      -> lbl_palak
                [] ~C28_Has(kw_arai, inp.filename) /\ ~C28_Has(kw_palak, inp.filename)
                        /\ C28_Has(kw_siru, inp.filename)
                      -> lbl_siru_keerai
                [] OTHER -> lbl_unknown
        /\ out.expected_healthy = ~C28_Has(kw_unhealthy, inp.filename)
        /\ parse_filename(lower(inp.filename)) = out

\* 'Palak' before 'ARAI' in a name that is also 'unhealthy' in upper case:
\* arai keerai, Affected
C28_Witness ==
    /\ C28_Parsed
    /\ inp.filename = part_Palak \o part_ARAI \o part_UNHEALTHY \o ext_jpg
    /\ out = [crop_type |-> lbl_arai_keerai, expected_healthy |-> FALSE]

\* 'siru' before 'palak', a name with 'healthy' only: palak, Healthy
C28_PalakOverSiru ==
    /\ C28_Parsed
    /\ inp.filename = part_SiRu \o kw_palak \o part_Healthy \o ext_jpg
    /\ out = [crop_type |-> lbl_palak, expected_healthy |-> TRUE]

\* no crop word and no verdict word: unknown, Healthy by default
C28_Defaults ==
    /\ C28_Parsed
    /\ inp.filename = part_leaf \o part_ara \o part_health \o ext_jpg
    /\ out = [crop_type |-> lbl_unknown, expected_healthy |-> TRUE]

---------------------------------------------------------------------------
(* C29: the conversion script.                                             *)

C29_Ran == program = "convert" /\ op = "main"

C29_Did(step) == \E k \in DOMAIN out.events : out.events[k] = step

\* the conversion methods among the steps that ran, in the order they ran
C29_Methods ==
    SelectSeq(out.events, LAMBDA s : s \in {"method1", "method2", "method3"})

\* the method ran and reported success
C29_Succeeded(m) ==
    /\ C29_Did(m)
    /\ CASE m = "method1" -> inp.run1 = "zero"
         [] m = "method2" -> inp.run2 = "zero"
         [] OTHER -> inp.method3 = "ok"

C29_SomeMethodSucceeded ==
    \E m \in {"method1", "method2", "method3"} : C29_Succeeded(m)

\* C29: with the model file missing main returns False before the output
\* directory or the metadata is created; otherwise the three methods are
\* attempted in order, a later one only if all earlier ones failed, the
\* metadata file is written whether or not conversion succeeded,
\* verify_conversion runs only after a successful conversion, and the exit
\* code is 0 iff a conversion method succeeded.
C29_ConversionRun ==
    C29_Ran =>
        /\ ~inp.h5_exists =>
              /\ ~out.raised /\ ~out.returned
              /\ ~C29_Did("create_output_directory")
              /\ ~C29_Did("create_model_metadata")
        /\ inp.h5_exists =>
              /\ C29_Did("method1")
              /\ \E n \in 1..3 : C29_Methods = SubSeq(<<"method1", "method2", "method3">>, 1, n)
              /\ C29_Did("method2") => ~C29_Succeeded("method1")
              /\ C29_Did("method3") => ~C29_Succeeded("method1") /\ ~C29_Succeeded("method2")
              /\ C29_Did("create_model_metadata")
              /\ C29_Did("verify_conversion") => C29_SomeMethodSucceeded
              /\ out.exit_code = 0 <=> C29_SomeMethodSucceeded

\* the same run as far as the code keeps it: whenever no exception leaves
\* main (the claim's sentences hold on every such run)
C29_WhenNothingEscapes ==
    C29_Ran /\ ~out.raised =>
        /\ ~inp.h5_exists =>
              out.events = <<"check_model_exists">> /\ out.exit_code = 1
        /\ inp.h5_exists =>
              /\ \E n \in 1..3 : C29_Methods = SubSeq(<<"method1", "method2", "method3">>, 1, n)
              /\ C29_Did("method2") => ~C29_Succeeded("method1")
              /\ C29_Did("method3") => ~C29_Succeeded("method1") /\ ~C29_Succeeded("method2")
              /\ C29_Did("create_model_metadata")
              /\ C29_Did("verify_conversion") <=> C29_SomeMethodSucceeded
              /\ out.exit_code = 0 <=> C29_SomeMethodSucceeded

\* tensorflowjs_converter is on the PATH but may not be executed: the
\* PermissionError leaves main, Methods 2 and 3 never run, no metadata
C29_PermissionError ==
    /\ C29_Ran
    /\ inp.h5_exists /\ inp.makedirs = "ok" /\ inp.run1 = "PermissionError"
    /\ out.raised /\ out.exit_code = 1
    /\ C29_Methods = <<"method1">>
    /\ ~C29_Did("create_model_metadata")

\* Method 1 succeeded and the metadata file could not be written: exit 1
C29_SucceededButExitOne ==
    /\ C29_Ran
    /\ inp.h5_exists /\ inp.makedirs = "ok" /\ inp.run1 = "zero"
    /\ inp.write_metadata = "OSError"
    /\ C29_Succeeded("method1")
    /\ out.exit_code = 1

\* all three methods ran and failed: metadata written, no verification
C29_AllFailed ==
    /\ C29_Ran
    /\ out.events = <<"check_model_exists", "create_output_directory", "method1",
                      "method2", "method3", "create_model_metadata">>
    /\ ~out.raised /\ ~out.returned /\ out.exit_code = 1

====
